---- MODULE Spec2Model ----
(***************************************************************************)
(* A model of the alpha-sdk trading client: the counterparty matching      *)
(* engine (src/utils/matching.ts), the fee engine (src/utils/fees.ts) and  *)
(* the order-creation flow of the trading module (createLimitOrder,        *)
(* createMarketOrder, createOrder).                                        *)
(***************************************************************************)
EXTENDS Integers, Sequences, FiniteSets, TLC

VARIABLES
    orderbook,   \* the orderbook snapshot: [yes |-> [bids, asks], no |-> [bids, asks]]
    req,         \* the arguments of calculateMatchingOrders
    matches,     \* the list calculateMatchingOrders returned
    mpc,         \* "call" before the call, "returned" after it
    params,      \* the parameters of createLimitOrder / createMarketOrder
    ledger,      \* the taker's asset holdings and the market's global state
    orderParams, \* the parameters createOrder is called with
    totalMatchedQuantity,   \* the local of createMarketOrder
    orderFeeBase,   \* the locals feeBase and fee of createOrder
    orderFee,
    atc,         \* the AtomicTransactionComposer: the bundle being built
    createEscrowTxnIndex,
    matchIndex,
    optInLookup, \* how accountInformation answered checkAssetOptIn
    submitted,   \* the bundles handed to the ledger by atc.execute
    executed,    \* the ledger's answer to atc.execute
    reads,       \* the lookups of extractEscrowAppId, in order, each with its outcome
    result,      \* the outcome of the call
    pc,          \* the step the call is at
    feeInput,    \* the price and the fee base the fee functions are called with
    feeCalls,    \* the calls of calculateFee made: [quantity, fee]
    totalCalls,  \* the calls of calculateFeeFromTotal made: [totalAmount, outcome, value]
    escrows,     \* the escrow applications the market created, on the ledger and in the index
    view,        \* the latest call of getOrderbook / getOpenOrders and what it returned
    cancel,      \* the latest call of cancelOrder and its outcome
    holdings,    \* the wallet's balances of USDC, YES and NO and the assets it is registered for
    shareCalls   \* the calls of splitShares / mergeShares made, in order, with their outcome

mvars == <<orderbook, req, matches, mpc>>

fvars == <<params, ledger, orderParams, totalMatchedQuantity, orderFeeBase,
           orderFee, atc,
           createEscrowTxnIndex, matchIndex, optInLookup, submitted, executed,
           reads, result, pc>>

feevars == <<feeInput, feeCalls, totalCalls>>

bvars == <<escrows, view, cancel, holdings, shareCalls>>

vars == <<orderbook, req, matches, mpc, params, ledger, orderParams,
          totalMatchedQuantity, orderFeeBase, orderFee, atc, createEscrowTxnIndex,
          matchIndex, optInLookup, submitted, executed, reads, result, pc,
          feeInput, feeCalls, totalCalls, escrows, view, cancel,
          holdings, shareCalls>>

\* -------------------------------------------------------------------------
\* Program constants
\* -------------------------------------------------------------------------

\* One full unit of value in microunits.
ONE == 1000000

\* -------------------------------------------------------------------------
\* Bounds of the model
\* -------------------------------------------------------------------------

\* The largest number of resting orders in an orderbook snapshot.
MaxBook == 3

\* Prices of resting orders, and the limit prices of a request.
BookPrices == {400000, 600000}
ReqPrices == {400000, 500000}
ReqSlippages == {0, 100000}

\* Remaining quantities of resting orders, and requested quantities.
BookQuantities == {500000, 1000000}
ReqQuantities == {0, 700000, 1500000}

Buckets == {"yes.bids", "yes.asks", "no.bids", "no.asks"}

\* -------------------------------------------------------------------------
\* Helpers on sequences
\* -------------------------------------------------------------------------

Min(a, b) == IF a <= b THEN a ELSE b

RECURSIVE SumQuantity(_)
SumQuantity(s) ==
    IF s = <<>> THEN 0 ELSE s[1].quantity + SumQuantity(Tail(s))

\* -------------------------------------------------------------------------
\* Wide natural numbers
\*
\* Amounts in microunits and their products exceed 32 bits, so the numeric
\* code is modelled on naturals held as sequences of limbs in radix 10^4,
\* most significant limb first, <<>> for 0: <<1, 0, 1>> is 100000001.
\* -------------------------------------------------------------------------

Radix == 10 ^ 4

Front(d) == SubSeq(d, 1, Len(d) - 1)

RECURSIVE Strip(_)
Strip(d) == IF d # <<>> /\ d[1] = 0 THEN Strip(Tail(d)) ELSE d

RECURSIVE BigOfInt(_)
BigOfInt(n) == IF n = 0 THEN <<>> ELSE Append(BigOfInt(n \div Radix), n % Radix)

RECURSIVE BigToInt(_)
BigToInt(d) == IF d = <<>> THEN 0 ELSE BigToInt(Front(d)) * Radix + d[Len(d)]

RECURSIVE BigAddC(_, _, _)
BigAddC(a, b, c) ==
    IF a = <<>> /\ b = <<>> THEN (IF c = 0 THEN <<>> ELSE <<c>>)
    ELSE LET x == (IF a = <<>> THEN 0 ELSE a[Len(a)])
                  + (IF b = <<>> THEN 0 ELSE b[Len(b)]) + c
         IN  Append(BigAddC(IF a = <<>> THEN <<>> ELSE Front(a),
                            IF b = <<>> THEN <<>> ELSE Front(b), x \div Radix),
                    x % Radix)

BigAdd(a, b) == BigAddC(a, b, 0)

\* a - b - c for a >= b + c, before the leading zeros are stripped.
RECURSIVE BigSubB(_, _, _)
BigSubB(a, b, c) ==
    IF a = <<>> THEN <<>>
    ELSE LET x == a[Len(a)] - (IF b = <<>> THEN 0 ELSE b[Len(b)]) - c
         IN  Append(BigSubB(Front(a), IF b = <<>> THEN <<>> ELSE Front(b),
                            IF x < 0 THEN 1 ELSE 0),
                    IF x < 0 THEN x + Radix ELSE x)

BigSub(a, b) == Strip(BigSubB(a, b, 0))

\* a * k + c, for k <= 200000
RECURSIVE BigMulSmallC(_, _, _)
BigMulSmallC(a, k, c) ==
    IF a = <<>> THEN BigOfInt(c)
    ELSE LET x == a[Len(a)] * k + c
         IN  Append(BigMulSmallC(Front(a), k, x \div Radix), x % Radix)

BigMulSmall(a, k) == IF k = 0 THEN <<>> ELSE BigMulSmallC(a, k, 0)

RECURSIVE BigMul(_, _)
BigMul(a, b) ==
    IF a = <<>> \/ b = <<>> THEN <<>>
    ELSE LET high == BigMul(a, Front(b))
         IN  BigAdd(IF high = <<>> THEN <<>> ELSE Append(high, 0),
                    BigMulSmall(a, b[Len(b)]))

\* -1, 0 or 1 as a < b, a = b or a > b
RECURSIVE BigCmpFrom(_, _, _)
BigCmpFrom(a, b, i) ==
    IF i > Len(a) THEN 0
    ELSE IF a[i] < b[i] THEN -1
    ELSE IF a[i] > b[i] THEN 1
    ELSE BigCmpFrom(a, b, i + 1)

BigCmp(a, b) ==
    IF Len(a) < Len(b) THEN -1
    ELSE IF Len(a) > Len(b) THEN 1
    ELSE BigCmpFrom(a, b, 1)

\* Quotient and remainder of a by k, for 0 < k <= 200000
RECURSIVE BigDivModFrom(_, _, _, _, _)
BigDivModFrom(a, k, i, rem, acc) ==
    IF i > Len(a) THEN [q |-> Strip(acc), r |-> rem]
    ELSE LET x == rem * Radix + a[i]
         IN  BigDivModFrom(a, k, i + 1, x % k, Append(acc, x \div k))

BigDivModSmall(a, k) == BigDivModFrom(a, k, 1, 0, <<>>)

\* Quotient (wide) and remainder (an integer) of a by 2^u, for u <= 30
RECURSIVE BigDivModPowTwo(_, _)
BigDivModPowTwo(a, u) ==
    IF u <= 17 THEN BigDivModSmall(a, 2 ^ u)
    ELSE LET lo == BigDivModSmall(a, 2 ^ 17)
             hi == BigDivModPowTwo(lo.q, u - 17)
         IN  [q |-> hi.q, r |-> hi.r * (2 ^ 17) + lo.r]

BigIsOdd(a) == a # <<>> /\ a[Len(a)] % 2 = 1

\* 10^n
PowTen(n) == <<10 ^ (n % 4)>> \o [i \in 1..(n \div 4) |-> 0]

\* d * 10^n
ShiftLeft(d, n) ==
    IF d = <<>> THEN <<>>
    ELSE BigMulSmall(d, 10 ^ (n % 4)) \o [i \in 1..(n \div 4) |-> 0]

\* Quotient and remainder of a by 10^m, both wide naturals
BigDivModPowTen(a, m) ==
    LET limbs == m \div 4
        upper == IF Len(a) <= limbs THEN <<>> ELSE SubSeq(a, 1, Len(a) - limbs)
        lower == IF Len(a) <= limbs THEN a ELSE SubSeq(a, Len(a) - limbs + 1, Len(a))
        qr == BigDivModSmall(upper, 10 ^ (m % 4))
    IN  [q |-> qr.q, r |-> Strip(BigOfInt(qr.r) \o lower)]

\* The largest d in lo..hi with d * b <= a, given lo * b <= a
RECURSIVE QuotientLimb(_, _, _, _)
QuotientLimb(a, b, lo, hi) ==
    IF lo = hi THEN lo
    ELSE LET mid == (lo + hi + 1) \div 2
         IN  IF BigCmp(BigMulSmall(b, mid), a) <= 0
             THEN QuotientLimb(a, b, mid, hi)
             ELSE QuotientLimb(a, b, lo, mid - 1)

\* Quotient and remainder of a by b > 0, both wide naturals
RECURSIVE BigDivModWide(_, _, _, _, _)
BigDivModWide(a, b, i, rem, acc) ==
    IF i > Len(a) THEN [q |-> Strip(acc), r |-> rem]
    ELSE LET x == Strip(Append(rem, a[i]))
             d == QuotientLimb(x, b, 0, Radix - 1)
         IN  BigDivModWide(a, b, i + 1, BigSub(x, BigMulSmall(b, d)), Append(acc, d))

BigDivMod(a, b) == BigDivModWide(a, b, 1, <<>>, <<>>)

\* The number of decimal digits of a
NumDigits(a) ==
    IF a = <<>> THEN 0
    ELSE 4 * (Len(a) - 1)
         + (IF a[1] >= 1000 THEN 4 ELSE IF a[1] >= 100 THEN 3 ELSE IF a[1] >= 10 THEN 2 ELSE 1)

\* 2^n
RECURSIVE PowTwo(_)
PowTwo(n) ==
    IF n <= 0 THEN <<1>>
    ELSE IF n <= 17 THEN BigOfInt(2 ^ n)
    ELSE BigMulSmall(PowTwo(n - 17), 2 ^ 17)

\* The e with 2^e <= n < 2^(e+1), for n >= 1; -1 for n = 0. A
\* number of L decimal digits lies in [10^(L-1), 10^L), so 3(L-1) <= e <= 4L.
LogTwo(n) ==
    IF n = <<>> THEN -1
    ELSE CHOOSE e \in (3 * (NumDigits(n) - 1))..(4 * NumDigits(n)) :
            BigCmp(PowTwo(e), n) <= 0 /\ BigCmp(n, PowTwo(e + 1)) < 0

\* -------------------------------------------------------------------------
\* JavaScript numbers (IEEE-754 doubles, round to nearest, ties to even)
\* -------------------------------------------------------------------------

\* The double nearest to n + F/10^m (0 <= F < 10^m) for n >= 2^52: a
\* multiple of 2^u, u = e - 52, where 2^e <= n < 2^(e+1) (n < 2^83).
RoundWide(n, F, m) ==
    LET u == LogTwo(n) - 52
        qr == BigDivModPowTwo(n, u)
        half == BigCmp(BigMulSmall(F, 2), PowTen(m))
        up == IF u = 0
              THEN half > 0 \/ (half = 0 /\ BigIsOdd(qr.q))
              ELSE \/ qr.r > 2 ^ (u - 1)
                   \/ (qr.r = 2 ^ (u - 1) /\ (F # <<>> \/ BigIsOdd(qr.q)))
    IN  BigMul(IF up THEN BigAdd(qr.q, <<1>>) ELSE qr.q, PowTwo(u))

\* The double nearest to the natural n.
JsNumber(n) == IF BigCmp(n, PowTwo(53)) < 0 THEN n ELSE RoundWide(n, <<>>, 0)

\* Math.floor of the double nearest to n + F/10^m (0 <= F < 10^m): n + 1
\* when the value is within half a unit in the last place below n + 1.
FloorOfDouble(n, F, m) ==
    IF F = <<>> THEN JsNumber(n)
    ELSE IF BigCmp(n, PowTwo(52)) >= 0 THEN RoundWide(n, F, m)
    ELSE IF BigCmp(BigMul(BigSub(PowTen(m), F), PowTwo(53 - LogTwo(n))), PowTen(m)) <= 0
         THEN BigAdd(n, <<1>>)
         ELSE n

\* Math.ceil of the double nearest to n + F/10^m (0 <= F < 10^m): n when
\* the value is within half a unit in the last place above n >= 1.
CeilOfDouble(n, F, m) ==
    IF F = <<>> THEN JsNumber(n)
    ELSE IF BigCmp(n, PowTwo(52)) >= 0 THEN RoundWide(n, F, m)
    ELSE IF n = <<>> THEN <<1>>
    ELSE IF BigCmp(BigMul(F, PowTwo(53 - LogTwo(n))), PowTen(m)) <= 0
         THEN n
         ELSE BigAdd(n, <<1>>)

\* a * b of two naturals held exactly by doubles.
JsMul(a, b) == JsNumber(BigMul(a, b))

\* Math.floor(x / 1_000_000) of a natural x held exactly by a double.
JsFloorDivMillion(x) ==
    LET qr == BigDivModPowTen(x, 6) IN FloorOfDouble(qr.q, qr.r, 6)

\* Integers with a sign: [neg, mag], mag a wide natural.
\* The exact sum a + f of a natural a and a signed integer f.
SignedAddExact(a, f) ==
    IF ~f.neg THEN [neg |-> FALSE, mag |-> BigAdd(a, f.mag)]
    ELSE IF BigCmp(a, f.mag) >= 0 THEN [neg |-> FALSE, mag |-> BigSub(a, f.mag)]
    ELSE [neg |-> TRUE, mag |-> BigSub(f.mag, a)]

\* a + f of two doubles holding a natural a and a signed integer f.
SignedAdd(a, f) ==
    LET sum == SignedAddExact(a, f) IN [neg |-> sum.neg, mag |-> JsNumber(sum.mag)]

SignedToInt(x) == IF x.neg THEN 0 - BigToInt(x.mag) ELSE BigToInt(x.mag)

\* -------------------------------------------------------------------------
\* decimal.js values: (-1)^neg * c * 10^e, c a wide natural, every
\* operation rounded to Precision significant digits, half up
\* -------------------------------------------------------------------------

\* Decimal.precision, the default of decimal.js
Precision == 20

DecRound(x) ==
    IF NumDigits(x.c) <= Precision THEN x
    ELSE LET k == NumDigits(x.c) - Precision
             qr == BigDivModPowTen(x.c, k)
         IN  [neg |-> x.neg,
              c |-> IF BigCmp(BigMulSmall(qr.r, 2), PowTen(k)) >= 0
                    THEN BigAdd(qr.q, <<1>>) ELSE qr.q,
              e |-> x.e + k]

\* new Decimal(n.toString())
DecOfNat(n) == [neg |-> FALSE, c |-> n, e |-> 0]

\* x.div(1_000_000)
DecDivMillion(x) == DecRound([neg |-> x.neg, c |-> x.c, e |-> x.e - 6])

\* x.mul(y)
DecMul(x, y) ==
    DecRound([neg |-> (x.neg # y.neg), c |-> BigMul(x.c, y.c), e |-> x.e + y.e])

\* new Decimal(1).minus(p), for p >= 0 with p.e <= 0
DecOneMinus(p) ==
    LET one == PowTen(0 - p.e)
    IN  DecRound(IF BigCmp(p.c, one) <= 0
                 THEN [neg |-> FALSE, c |-> BigSub(one, p.c), e |-> p.e]
                 ELSE [neg |-> TRUE, c |-> BigSub(p.c, one), e |-> p.e])

\* Math.ceil(x.toNumber()), as a signed integer
DecCeilNumber(x) ==
    LET m == IF x.e < 0 THEN 0 - x.e ELSE 0
        qr == BigDivModPowTen(IF x.e >= 0 THEN ShiftLeft(x.c, x.e) ELSE x.c, m)
    IN  IF x.neg
        THEN LET mag == FloorOfDouble(qr.q, qr.r, m)
             IN  [neg |-> (mag # <<>>), mag |-> mag]
        ELSE [neg |-> FALSE, mag |-> CeilOfDouble(qr.q, qr.r, m)]

\* -------------------------------------------------------------------------
\* calculateFee (src/utils/fees.ts); quantity, price and feeBase are wide
\* naturals, the fee is a signed integer
\* -------------------------------------------------------------------------

\* calculateFee with a floor of one microunit on the fee.
calculateFeeAtLeastOne(quantity, price, feeBase) ==
    LET q == DecOfNat(quantity)
        p == DecDivMillion(DecOfNat(price))
        fb == DecDivMillion(DecOfNat(feeBase))
        fee == DecCeilNumber(DecMul(DecMul(DecMul(fb, q), p), DecOneMinus(p)))
    IN  IF fee.neg \/ fee.mag = <<>> THEN [neg |-> FALSE, mag |-> <<1>>] ELSE fee

\* The 32-bit two's complement integer a number is taken to by "| 0".
ToInt32(x) ==
    LET r == BigDivMod(x.mag, PowTwo(32)).r
        low == IF x.neg /\ r # <<>> THEN BigSub(PowTwo(32), r) ELSE r
    IN  IF BigCmp(low, PowTwo(31)) >= 0
        THEN [neg |-> TRUE, mag |-> BigSub(PowTwo(32), low)]
        ELSE [neg |-> FALSE, mag |-> low]

\* calculateFee with the fee taken to a 32-bit integer.
calculateFeeInt32(quantity, price, feeBase) ==
    LET q == DecOfNat(quantity)
        p == DecDivMillion(DecOfNat(price))
        fb == DecDivMillion(DecOfNat(feeBase))
        fee == DecMul(DecMul(DecMul(fb, q), p), DecOneMinus(p))
    IN  ToInt32(DecCeilNumber(fee))

calculateFee(quantity, price, feeBase) ==
    LET q == DecOfNat(quantity)
        p == DecDivMillion(DecOfNat(price))
        fb == DecDivMillion(DecOfNat(feeBase))
        fee == DecMul(DecMul(DecMul(fb, q), p), DecOneMinus(p))
    IN  DecCeilNumber(fee)

\* -------------------------------------------------------------------------
\* calculateFeeFromTotal (src/utils/fees.ts)
\*
\* A division can leave the finite decimals: a Decimal is then held as
\* [kind, d] with kind "finite" (d the value), "Infinity" (d.neg the sign)
\* or "NaN"; kind "raised" stands for an exception thrown by the operation,
\* which ends the function that called it.
\* -------------------------------------------------------------------------

DecZero == [neg |-> FALSE, c |-> <<>>, e |-> 0]

Finite(d) == [kind |-> "finite", d |-> d]

DecInfinity(neg) == [kind |-> "Infinity", d |-> [neg |-> neg, c |-> <<>>, e |-> 0]]

DecNaN == [kind |-> "NaN", d |-> DecZero]

DecRaised == [kind |-> "raised", d |-> DecZero]

\* x.plus(y)
DecPlus(x, y) ==
    LET e == Min(x.e, y.e)
        cx == ShiftLeft(x.c, x.e - e)
        cy == ShiftLeft(y.c, y.e - e)
    IN  DecRound(IF x.neg = y.neg THEN [neg |-> x.neg, c |-> BigAdd(cx, cy), e |-> e]
                 ELSE IF BigCmp(cx, cy) = 0 THEN [neg |-> FALSE, c |-> <<>>, e |-> e]
                 ELSE IF BigCmp(cx, cy) > 0 THEN [neg |-> x.neg, c |-> BigSub(cx, cy), e |-> e]
                 ELSE [neg |-> y.neg, c |-> BigSub(cy, cx), e |-> e])

\* x.div(y) raising on a zero divisor
DecDivRaising(x, y) ==
    IF y.c = <<>> THEN DecRaised
    ELSE IF x.c = <<>> THEN Finite([neg |-> (x.neg # y.neg), c |-> <<>>, e |-> 0])
    ELSE LET k == Precision + 1 + NumDigits(y.c)
             qr == BigDivMod(ShiftLeft(x.c, k), y.c)
         IN  Finite(DecRound([neg |-> (x.neg # y.neg), c |-> qr.q, e |-> x.e - y.e - k]))

\* x.div(y) of two finite decimals: 0/0 is NaN, x/0 is Infinity with the
\* sign of the quotient, and no divisor makes it throw.
DecDiv(x, y) ==
    IF y.c = <<>> THEN (IF x.c = <<>> THEN DecNaN ELSE DecInfinity(x.neg # y.neg))
    ELSE IF x.c = <<>> THEN Finite([neg |-> (x.neg # y.neg), c |-> <<>>, e |-> 0])
    ELSE LET k == Precision + 1 + NumDigits(y.c)
             qr == BigDivMod(ShiftLeft(x.c, k), y.c)
         IN  Finite(DecRound([neg |-> (x.neg # y.neg), c |-> qr.q, e |-> x.e - y.e - k]))

\* x.mul(y) where either may be infinite or NaN: Infinity times 0 is NaN.
DecMulAny(x, y) ==
    IF x.kind = "raised" \/ y.kind = "raised" THEN DecRaised
    ELSE IF x.kind = "NaN" \/ y.kind = "NaN" THEN DecNaN
    ELSE IF x.kind = "finite" /\ y.kind = "finite" THEN Finite(DecMul(x.d, y.d))
    ELSE IF (x.kind = "finite" /\ x.d.c = <<>>) \/ (y.kind = "finite" /\ y.d.c = <<>>)
         THEN DecNaN
    ELSE DecInfinity(x.d.neg # y.d.neg)

\* Math.ceil(x.toNumber()): a number [kind, neg, mag]; the ceiling of an
\* infinity is that infinity and the ceiling of NaN is NaN.
DecCeilNumberAny(x) ==
    IF x.kind = "finite"
    THEN LET n == DecCeilNumber(x.d) IN [kind |-> "finite", neg |-> n.neg, mag |-> n.mag]
    ELSE [kind |-> x.kind, neg |-> x.d.neg, mag |-> <<>>]

\* calculateFeeFromTotal taking the total for the principal alone: the
\* quantity is total / p.
calculateFeeFromPrincipal(totalAmount, price, feeBase) ==
    LET total == DecOfNat(totalAmount)
        p == DecDivMillion(DecOfNat(price))
        fb == DecDivMillion(DecOfNat(feeBase))
        quantity == DecDiv(total, p)
        fee == DecMulAny(DecMulAny(DecMulAny(Finite(fb), quantity), Finite(p)),
                         Finite(DecOneMinus(p)))
    IN  DecCeilNumberAny(fee)

calculateFeeFromTotal(totalAmount, price, feeBase) ==
    LET total == DecOfNat(totalAmount)
        p == DecDivMillion(DecOfNat(price))
        fb == DecDivMillion(DecOfNat(feeBase))
        denominator == DecMul(p, DecPlus(DecOfNat(<<1>>), DecMul(fb, DecOneMinus(p))))
        quantity == DecDiv(total, denominator)
        fee == DecMulAny(DecMulAny(DecMulAny(Finite(fb), quantity), Finite(p)),
                         Finite(DecOneMinus(p)))
    IN  DecCeilNumberAny(fee)

\* -------------------------------------------------------------------------
\* Orderbook snapshots
\* -------------------------------------------------------------------------

OwnerOf(id) == "MAKER"

\* The snapshot made of the resting orders `recs`, each [bucket, price,
\* quantity]; the i-th resting order is escrow application i, and every
\* bucket keeps the orders in the order of `recs`.
RECURSIVE BucketOf(_, _, _)
BucketOf(recs, b, i) ==
    IF i > Len(recs) THEN <<>>
    ELSE (IF recs[i].bucket = b
            THEN <<[price |-> recs[i].price, quantity |-> recs[i].quantity,
                    escrowAppId |-> i, owner |-> OwnerOf(i)]>>
            ELSE <<>>) \o BucketOf(recs, b, i + 1)

BookOf(recs) ==
    [yes |-> [bids |-> BucketOf(recs, "yes.bids", 1), asks |-> BucketOf(recs, "yes.asks", 1)],
     no  |-> [bids |-> BucketOf(recs, "no.bids", 1),  asks |-> BucketOf(recs, "no.asks", 1)]]

RestingOrders == [bucket : Buckets, price : BookPrices, quantity : BookQuantities]

Snapshots ==
    { BookOf(recs) : recs \in UNION { [1..n -> RestingOrders] : n \in 0..MaxBook } }

\* -------------------------------------------------------------------------
\* calculateMatchingOrders (src/utils/matching.ts)
\* -------------------------------------------------------------------------

\* The reprojection of a complementary order: price 1,000,000 - price.
Complement(o) ==
    [price |-> ONE - o.price, quantity |-> o.quantity,
     escrowAppId |-> o.escrowAppId, owner |-> o.owner]

\* Compare with the ascending comparator of the buy branch in every branch.
CompareAscendingOnly(a, b, isBuying) == a.price - b.price

\* orders.map(...) with the reprojection.
ComplementAll(orders) == [i \in 1..Len(orders) |-> Complement(orders[i])]

\* The comparator of the sort: a.price - b.price when buying (ascending),
\* b.price - a.price when selling (descending).
Compare(a, b, isBuying) == IF isBuying THEN a.price - b.price ELSE b.price - a.price

\* Array.prototype.sort is stable: an element goes after every element the
\* comparator does not put after it.
RECURSIVE InsertSorted(_, _, _)
InsertSorted(s, x, isBuying) ==
    IF s = <<>> THEN <<x>>
    ELSE IF Compare(s[Len(s)], x, isBuying) <= 0 THEN Append(s, x)
    ELSE Append(InsertSorted(SubSeq(s, 1, Len(s) - 1), x, isBuying), s[Len(s)])

RECURSIVE SortOrders(_, _)
SortOrders(s, isBuying) ==
    IF s = <<>> THEN <<>>
    ELSE InsertSorted(SortOrders(SubSeq(s, 1, Len(s) - 1), isBuying), s[Len(s)], isBuying)

\* directOrders of the four cases.
DirectOrders(book, isBuying, isYes) ==
    IF isBuying
    THEN (IF isYes THEN book.yes.asks ELSE book.no.asks)
    ELSE (IF isYes THEN book.yes.bids ELSE book.no.bids)

\* complementaryOrders of the four cases.
ComplementaryOrders(book, isBuying, isYes) ==
    IF isBuying
    THEN ComplementAll(IF isYes THEN book.no.bids ELSE book.yes.bids)
    ELSE ComplementAll(IF isYes THEN book.no.asks ELSE book.yes.asks)

\* WithinLimit with the buy branch's test in the sell branch too.
WithinLimitBuyTestOnly(order, isBuying, price, slippageTolerance) ==
    order.price <= price + slippageTolerance

\* The predicate of the filter over the sorted orders.
WithinLimit(order, isBuying, price, slippageTolerance) ==
    IF isBuying
    THEN order.price <= price + slippageTolerance
    ELSE order.price >= price - slippageTolerance

\* getMatchingOrders without its filter.
getMatchingOrdersUnfiltered(book, isBuying, isYes, price, slippageTolerance) ==
    SortOrders(DirectOrders(book, isBuying, isYes)
               \o ComplementaryOrders(book, isBuying, isYes), isBuying)

getMatchingOrders(book, isBuying, isYes, price, slippageTolerance) ==
    LET allOrders == SortOrders(DirectOrders(book, isBuying, isYes)
                                \o ComplementaryOrders(book, isBuying, isYes), isBuying)
        Keep(o) == WithinLimit(o, isBuying, price, slippageTolerance)
    IN  SelectSeq(allOrders, Keep)

\* AmountToTake without the cap by volumeLeft.
AmountToTakeWholeOrder(counterParty, volumeLeft) == counterParty.quantity

\* AmountToTake without the cap by the order's quantity.
AmountToTakeVolumeLeft(counterParty, volumeLeft) == volumeLeft

\* amountToTake of one step of the loop.
AmountToTake(counterParty, volumeLeft) == Min(counterParty.quantity, volumeLeft)

\* The loop over matchingOrders, from its i-th order on with volumeLeft left.
RECURSIVE FillLoop(_, _, _)
FillLoop(orders, i, volumeLeft) ==
    IF i > Len(orders) \/ volumeLeft <= 0 THEN <<>>
    ELSE LET amountToTake == AmountToTake(orders[i], volumeLeft)
         IN  IF amountToTake > 0
             THEN <<[escrowAppId |-> orders[i].escrowAppId,
                     quantity |-> amountToTake,
                     owner |-> orders[i].owner]>>
                  \o FillLoop(orders, i + 1, volumeLeft - amountToTake)
             ELSE FillLoop(orders, i + 1, volumeLeft)

\* calculateMatchingOrders stopping after the best order.
calculateMatchingOrdersBestOnly(book, isBuying, isYes, quantity, price, slippageTolerance) ==
    LET matchingOrders == getMatchingOrders(book, isBuying, isYes, price, slippageTolerance)
    IN  IF Len(matchingOrders) = 0 THEN <<>>
        ELSE FillLoop(SubSeq(matchingOrders, 1, 1), 1, quantity)

calculateMatchingOrders(book, isBuying, isYes, quantity, price, slippageTolerance) ==
    LET matchingOrders == getMatchingOrders(book, isBuying, isYes, price, slippageTolerance)
    IN  IF Len(matchingOrders) = 0 THEN <<>>
        ELSE FillLoop(matchingOrders, 1, quantity)

\* -------------------------------------------------------------------------
\* The matching engine as a state machine: one call on bounded inputs
\* -------------------------------------------------------------------------

Requests ==
    [isBuying : BOOLEAN, isYes : BOOLEAN, quantity : ReqQuantities,
     price : ReqPrices, slippageTolerance : ReqSlippages]

\* No order call is in progress.
\* No index is read and no order is cancelled.
SharesIdle == holdings = <<>> /\ shareCalls = <<>>

BookIdle == escrows = <<>> /\ view = <<>> /\ cancel = <<>> /\ SharesIdle

\* No call of the fee functions is being followed.
FeeIdle == feeInput = <<>> /\ feeCalls = {} /\ totalCalls = {}

FlowIdle ==
    /\ params = <<>>
    /\ ledger = <<>>
    /\ orderParams = <<>>
    /\ totalMatchedQuantity = 0
    /\ orderFeeBase = 0
    /\ orderFee = <<>>
    /\ atc = <<>>
    /\ createEscrowTxnIndex = 0
    /\ matchIndex = 0
    /\ optInLookup = "none"
    /\ submitted = <<>>
    /\ executed = <<>>
    /\ reads = <<>>
    /\ result = <<>>
    /\ pc = "idle"

MatchInit ==
    /\ orderbook \in Snapshots
    /\ req \in Requests
    /\ matches = <<>>
    /\ mpc = "call"
    /\ FlowIdle
    /\ FeeIdle
    /\ BookIdle

\* The call calculateMatchingOrders(orderbook, isBuying, isYes, quantity,
\* price, slippageTolerance); the snapshot is not changed.
Match ==
    /\ mpc = "call"
    /\ matches' = calculateMatchingOrders(orderbook, req.isBuying, req.isYes,
                                          req.quantity, req.price, req.slippageTolerance)
    /\ mpc' = "returned"
    /\ UNCHANGED <<orderbook, req>>
    /\ UNCHANGED <<fvars, feevars, bvars>>

MatchNext == Match

MatchSpec == MatchInit /\ [][MatchNext]_mvars

\* -------------------------------------------------------------------------
\* Properties of calculateMatchingOrders
\* -------------------------------------------------------------------------

\* The bucket of direct orders and the bucket of complementary orders of the
\* request, read from the snapshot.
DirectBucket ==
    CASE req.isBuying /\ req.isYes -> orderbook.yes.asks
      [] req.isBuying /\ ~req.isYes -> orderbook.no.asks
      [] ~req.isBuying /\ req.isYes -> orderbook.yes.bids
      [] OTHER -> orderbook.no.bids

OppositeBucket ==
    CASE req.isBuying /\ req.isYes -> orderbook.no.bids
      [] req.isBuying /\ ~req.isYes -> orderbook.yes.bids
      [] ~req.isBuying /\ req.isYes -> orderbook.no.asks
      [] OTHER -> orderbook.yes.asks

AllResting ==
    { orderbook.yes.bids[i] : i \in DOMAIN orderbook.yes.bids }
    \cup { orderbook.yes.asks[i] : i \in DOMAIN orderbook.yes.asks }
    \cup { orderbook.no.bids[i] : i \in DOMAIN orderbook.no.bids }
    \cup { orderbook.no.asks[i] : i \in DOMAIN orderbook.no.asks }

PriceLimit ==
    IF req.isBuying THEN req.price + req.slippageTolerance
    ELSE req.price - req.slippageTolerance

Qualifies(eff) == IF req.isBuying THEN eff <= PriceLimit ELSE eff >= PriceLimit

\* The candidates of the request: each with its effective price, whether it
\* is a direct order, and its place in direct orders followed by
\* complementary orders.
Candidates ==
    { [id |-> DirectBucket[i].escrowAppId, eff |-> DirectBucket[i].price,
       direct |-> TRUE, place |-> i, quantity |-> DirectBucket[i].quantity]
        : i \in DOMAIN DirectBucket }
    \cup
    { [id |-> OppositeBucket[i].escrowAppId, eff |-> ONE - OppositeBucket[i].price,
       direct |-> FALSE, place |-> Len(DirectBucket) + i,
       quantity |-> OppositeBucket[i].quantity]
        : i \in DOMAIN OppositeBucket }

Qualifying == { c \in Candidates : Qualifies(c.eff) }

CandidateOf(id) == CHOOSE c \in Candidates : c.id = id

RECURSIVE SumOf(_)
SumOf(S) ==
    IF S = {} THEN 0
    ELSE LET c == CHOOSE x \in S : TRUE IN c.quantity + SumOf(S \ {c})

StrictlyBetter(e1, e2) == IF req.isBuying THEN e1 < e2 ELSE e1 > e2

\* C1: the quantities of the matches returned by calculateMatchingOrders sum
\* to at most the requested quantity.
C1_TotalAtMostRequested ==
    mpc = "returned" => SumQuantity(matches) <= req.quantity

\* A call whose orders hold more than requested and that filled two orders.
C1_Witness ==
    /\ mpc = "returned"
    /\ Len(matches) >= 2
    /\ SumOf(Qualifying) > req.quantity
    /\ SumQuantity(matches) = req.quantity

\* C2: every match is a qualifying order of the case: a direct order of the
\* requested outcome, or an order of the opposite bucket of the other
\* outcome at effective price 1,000,000 - price, within price + slippage
\* when buying and price - slippage when selling.
C2_OnlyQualifyingMatched ==
    mpc = "returned" =>
        \A i \in DOMAIN matches :
            \E c \in Qualifying : c.id = matches[i].escrowAppId

\* A call that matched an order while the snapshot also held an order of the
\* case outside the limit and an order of a bucket that is not of the case.
C2_Witness ==
    /\ mpc = "returned"
    /\ matches # <<>>
    /\ SumQuantity(matches) < req.quantity
    /\ \E c \in Candidates : ~Qualifies(c.eff)
    /\ \E o \in AllResting : \A c \in Candidates : c.id # o.escrowAppId

\* C3: the matches follow the stable sort of direct orders followed by
\* complementary orders by effective price: never a worse price before a
\* better one, and at equal price the order of direct-then-complementary.
C3_SortedStable ==
    mpc = "returned" =>
        \A i, j \in DOMAIN matches :
            i < j =>
                LET ci == CandidateOf(matches[i].escrowAppId)
                    cj == CandidateOf(matches[j].escrowAppId)
                IN  /\ ~StrictlyBetter(cj.eff, ci.eff)
                    /\ (ci.eff = cj.eff => ci.place < cj.place)

\* A sell whose matches hold a direct and a complementary order at one
\* effective price, and an order at a strictly worse price after them.
C3_Witness ==
    /\ mpc = "returned"
    /\ ~req.isBuying
    /\ Len(matches) = 3
    /\ LET c1 == CandidateOf(matches[1].escrowAppId)
           c2 == CandidateOf(matches[2].escrowAppId)
           c3 == CandidateOf(matches[3].escrowAppId)
       IN  /\ c1.eff = c2.eff /\ c1.direct /\ ~c2.direct
           /\ c3.eff < c2.eff

\* C4: every match names a distinct resting order of the snapshot, with a
\* quantity greater than 0 and at most that order's remaining quantity.
C4_DistinctAndBounded ==
    mpc = "returned" =>
        /\ \A i, j \in DOMAIN matches :
              i # j => matches[i].escrowAppId # matches[j].escrowAppId
        /\ \A i \in DOMAIN matches :
              \E o \in AllResting :
                  /\ o.escrowAppId = matches[i].escrowAppId
                  /\ matches[i].quantity > 0
                  /\ matches[i].quantity <= o.quantity

\* A call that filled one order wholly and another one in part.
C4_Witness ==
    /\ mpc = "returned"
    /\ Len(matches) >= 2
    /\ \E i \in DOMAIN matches :
          \E o \in AllResting :
              o.escrowAppId = matches[i].escrowAppId /\ matches[i].quantity < o.quantity

\* C5: every match but the last takes its order's whole remaining quantity,
\* and the total matched is min(requested, sum of the qualifying orders).
C5_GreedyFill ==
    mpc = "returned" =>
        /\ \A i \in DOMAIN matches :
              i < Len(matches) =>
                  matches[i].quantity = CandidateOf(matches[i].escrowAppId).quantity
        /\ SumQuantity(matches) = Min(req.quantity, SumOf(Qualifying))

\* A call that took every qualifying order whole and still fell short.
C5_Witness ==
    /\ mpc = "returned"
    /\ Len(matches) >= 2
    /\ SumQuantity(matches) = SumOf(Qualifying)
    /\ SumQuantity(matches) < req.quantity

\* C6: with an empty orderbook, or with no order qualifying within the price
\* limit, the call returns the empty list (it returns: it does not throw).
C6_EmptyWhenNothingQualifies ==
    (mpc = "returned" /\ Qualifying = {}) => matches = <<>>

\* A returned call on a snapshot with orders of the case, none within the
\* limit.
C6_Witness ==
    /\ mpc = "returned"
    /\ Candidates # {}
    /\ Qualifying = {}
    /\ req.quantity > 0
    /\ matches = <<>>

\* -------------------------------------------------------------------------
\* createLimitOrder, createMarketOrder, createOrder, extractEscrowAppId
\* (src/modules/trading.ts)
\* -------------------------------------------------------------------------

\* The most matches a caller supplies in matchingOrders.
MaxSupplied == 2

\* The largest number of resting orders in the snapshot a market order reads.
MaxFlowBook == 2

\* An optional value: None when absent, Some(v) when present.
None == <<>>
Some(v) == <<v>>

FlowPrices == {500000, 999999}
FlowSlippages == {0, 100000}

\* Order quantities, wide naturals: 700000, 1500000 and 10000000001.
FlowQuantities == {BigOfInt(700000), BigOfInt(1500000)}
WideQuantities == {<<100, 0, 1>>}

\* feeBase when the caller supplies it, and the market's fee_base_percent.
SuppliedFeeBases == {0, 30000}
OnChainFeeBases == {70000}

Assets == {"USDC", "YES", "NO"}

\* The matches a caller supplies.
SuppliedMatches == [escrowAppId : {1, 2}, quantity : {1000000}, owner : {"MAKER"}]

SuppliedLists == UNION { [1..n -> SuppliedMatches] : n \in 0..MaxSupplied }

\* The snapshots getOrderbook answers a market order with.
FlowRestingOrders == [bucket : Buckets, price : {500000}, quantity : {1000000}]

FlowSnapshots ==
    { BookOf(recs) : recs \in UNION { [1..n -> FlowRestingOrders] : n \in 0..MaxFlowBook } }

LimitCalls ==
    [kind : {"limit"}, position : {0, 1}, price : FlowPrices,
     quantity : FlowQuantities \cup WideQuantities, isBuying : BOOLEAN,
     slippage : {0}, feeBase : {None} \cup { Some(f) : f \in SuppliedFeeBases },
     matchingOrders : {None}]

MarketCalls ==
    [kind : {"market"}, position : {0, 1}, price : FlowPrices,
     quantity : FlowQuantities, isBuying : BOOLEAN, slippage : FlowSlippages,
     feeBase : {None} \cup { Some(f) : f \in SuppliedFeeBases },
     matchingOrders : {None} \cup { Some(l) : l \in SuppliedLists }]

\* The delays with one more retry.
backoffsWithExtraRetry == <<1000, 1500, 2000, 3000, 5000, 8000, 13000>>

\* The delays of the indexer lookups, in milliseconds.
backoffs == <<1000, 1500, 2000, 3000, 5000, 8000>>

\* The opt-in check made about USDC for buys and sells alike.
ReceivedAssetUsdcOnly(isBuying, position) == "USDC"

\* The asset the taker receives, which the opt-in check is about: USDC when
\* selling, the outcome token of the position when buying.
ReceivedAsset(isBuying, position) ==
    IF ~isBuying THEN "USDC" ELSE IF position = 1 THEN "YES" ELSE "NO"

\* fundAssetId
FundAsset(isBuying, position) ==
    IF isBuying THEN "USDC" ELSE IF position = 1 THEN "YES" ELSE "NO"

\* fundAmount: quantity is a wide natural, the amount of the fee signed.
FundAmount(isBuying, quantity, price, slippage, feeAmount) ==
    IF isBuying
    THEN SignedAdd(JsFloorDivMillion(JsMul(quantity, BigOfInt(price + slippage))), feeAmount)
    ELSE [neg |-> FALSE, mag |-> quantity]

\* checkAssetOptIn: false when accountInformation throws.
checkAssetOptIn(assets, assetId, threw) == ~threw /\ assetId \in assets

\* Math.min(matchingOrder.quantity, quantity), quantity a wide natural.
QuantityMatched(matchQuantity, quantity) ==
    IF BigCmp(BigOfInt(matchQuantity), quantity) <= 0 THEN matchQuantity
    ELSE BigToInt(quantity)

\* The matching order of an iteration of the loop over matchingOrders,
\* taken from the end of the list.
MatchAtReversed(matchingOrders, k) == matchingOrders[Len(matchingOrders) - k + 1]

\* The matching order of the k-th iteration of the loop over matchingOrders.
MatchAt(matchingOrders, k) == matchingOrders[k]

\* The signed integer 0.
Zero == [neg |-> FALSE, mag |-> <<>>]

Pending ==
    [status |-> "pending", escrowAppId |-> 0, txIds |-> <<>>, confirmedRound |-> 0,
     matchedQuantity |-> None]

Rejected ==
    [status |-> "rejected", escrowAppId |-> 0, txIds |-> <<>>, confirmedRound |-> 0,
     matchedQuantity |-> None]

\* atc.execute is not called yet.
NotExecuted == [status |-> "none", confirmedRound |-> 0, stale |-> {}, applied |-> <<>>]

\* The ledger can confirm a bundle only when none of the escrows it makes
\* a proposal to was filled or cancelled since the matching orders were read.
LedgerCanConfirm(stale) == stale = {}

\* The operations of a bundle that take effect on the ledger: all of them
\* when the bundle is confirmed, none when it is rejected.
LedgerApplies(bundle, confirmed) == IF confirmed THEN bundle ELSE <<>>

\* The rounds the ledger confirms a bundle in.
LedgerRounds == {1001}

\* What a lookup of the created application answers: the identifier, an
\* answer without it, or an exception.
Answers == {"found", "none", "threw"}

\* The escrow applications the proposals of a bundle are made to.
ProposedMakers(bundle) ==
    { bundle[i].maker : i \in { j \in 1..Len(bundle) : bundle[j].type = "proposeAMatch" } }

\* The result of a confirmed call: txIds are the positions of the bundle.
Resolved(escrowAppId) ==
    [status |-> "resolved", escrowAppId |-> escrowAppId,
     txIds |-> [i \in 1..Len(atc) |-> i - 1],
     confirmedRound |-> executed.confirmedRound,
     matchedQuantity |-> IF params.kind = "market" THEN Some(totalMatchedQuantity) ELSE None]

\* The application the ledger creates for the new escrow.
CreatedApplicationIndex == 1001

MatchIdle == req = <<>> /\ matches = <<>> /\ mpc = "idle"

Init ==
    /\ params \in LimitCalls \cup MarketCalls
    /\ orderbook \in IF params.kind = "market" /\ params.matchingOrders = None
                     THEN FlowSnapshots ELSE {BookOf(<<>>)}
    /\ ledger \in [assets : SUBSET Assets, fee_base_percent : OnChainFeeBases]
    /\ MatchIdle
    /\ FeeIdle
    /\ BookIdle
    /\ orderParams = <<>>
    /\ totalMatchedQuantity = 0
    /\ orderFeeBase = 0
    /\ orderFee = Zero
    /\ atc = <<>>
    /\ createEscrowTxnIndex = 0
    /\ matchIndex = 0
    /\ optInLookup = "none"
    /\ submitted = <<>>
    /\ executed = NotExecuted
    /\ reads = <<>>
    /\ result = Pending
    /\ pc = "start"

\* createLimitOrder: createOrder with slippage 0 and no matching orders.
CreateLimitOrder ==
    /\ pc = "start"
    /\ params.kind = "limit"
    /\ orderParams' = [params EXCEPT !.slippage = 0, !.matchingOrders = <<>>]
    /\ pc' = "state"
    /\ UNCHANGED <<executed, params, ledger, totalMatchedQuantity, orderFeeBase, orderFee, atc,
                   createEscrowTxnIndex, matchIndex, optInLookup, submitted, reads, result>>
    /\ UNCHANGED <<mvars, feevars, bvars>>

\* createMarketOrder up to its call of createOrder: the caller's matching
\* orders when supplied, else the orders calculateMatchingOrders selects
\* from the snapshot getOrderbook answers; the call rejects when
\* getOrderbook does.
CreateMarketOrder ==
    /\ pc = "start"
    /\ params.kind = "market"
    /\ \E fetched \in BOOLEAN :
          IF params.matchingOrders = None /\ ~fetched
          THEN /\ result' = Rejected
               /\ pc' = "done"
               /\ UNCHANGED <<orderParams, totalMatchedQuantity>>
          ELSE LET matchingOrders ==
                       IF params.matchingOrders # None THEN params.matchingOrders[1]
                       ELSE calculateMatchingOrders(orderbook, params.isBuying,
                                params.position = 1, BigToInt(params.quantity),
                                params.price, params.slippage)
               IN  /\ totalMatchedQuantity' = SumQuantity(matchingOrders)
                   /\ orderParams' = [params EXCEPT !.matchingOrders = matchingOrders]
                   /\ pc' = "state"
                   /\ UNCHANGED result
    /\ UNCHANGED <<executed, params, ledger, orderFeeBase, orderFee, atc, createEscrowTxnIndex,
                   matchIndex, optInLookup, submitted, reads>>
    /\ UNCHANGED <<mvars, feevars, bvars>>

\* createOrder from getMarketGlobalState to the empty composer: feeBase is
\* params.feeBase ?? globalState.fee_base_percent, the fee is computed for
\* a buy only.
ReadMarketState ==
    /\ pc = "state"
    /\ LET fb == IF orderParams.feeBase # None THEN orderParams.feeBase[1]
                 ELSE ledger.fee_base_percent
       IN  /\ orderFeeBase' = fb
           /\ orderFee' = IF orderParams.isBuying
                          THEN calculateFee(orderParams.quantity,
                                            BigOfInt(orderParams.price + orderParams.slippage),
                                            BigOfInt(fb))
                          ELSE Zero
    /\ atc' = <<>>
    /\ createEscrowTxnIndex' = 0
    /\ pc' = "optin"
    /\ UNCHANGED <<executed, params, ledger, orderParams, totalMatchedQuantity, matchIndex,
                   optInLookup, submitted, reads, result>>
    /\ UNCHANGED <<mvars, feevars, bvars>>

\* Step 1: the opt-in of the asset the taker receives, added when
\* checkAssetOptIn answers false.
CheckOptIn ==
    /\ pc = "optin"
    /\ \E threw \in BOOLEAN :
          LET assetId == ReceivedAsset(orderParams.isBuying, orderParams.position)
          IN  /\ optInLookup' = IF threw THEN "threw" ELSE "answered"
              /\ IF ~checkAssetOptIn(ledger.assets, assetId, threw)
                 THEN /\ atc' = Append(atc, [type |-> "axfer", from |-> "TAKER", to |-> "TAKER",
                                             assetId |-> assetId, amount |-> Zero])
                      /\ createEscrowTxnIndex' = createEscrowTxnIndex + 1
                 ELSE UNCHANGED <<atc, createEscrowTxnIndex>>
    /\ pc' = "payment"
    /\ UNCHANGED <<executed, params, ledger, orderParams, totalMatchedQuantity, orderFeeBase,
                   orderFee, matchIndex, submitted, reads, result>>
    /\ UNCHANGED <<mvars, feevars, bvars>>

\* Step 2 without the count of the transaction added.
AddPaymentUncounted ==
    /\ pc = "payment"
    /\ atc' = Append(atc, [type |-> "pay", from |-> "TAKER", to |-> "MARKET",
                           amount |-> 957000])
    /\ pc' = "fund"
    /\ UNCHANGED <<executed, params, ledger, orderParams, totalMatchedQuantity, orderFeeBase,
                   orderFee, matchIndex, optInLookup, submitted, reads, result,
                   createEscrowTxnIndex>>
    /\ UNCHANGED <<mvars, feevars, bvars>>

\* Step 2: the payment of 957,000 microAlgos to the market application.
AddPayment ==
    /\ pc = "payment"
    /\ atc' = Append(atc, [type |-> "pay", from |-> "TAKER", to |-> "MARKET",
                           amount |-> 957000])
    /\ createEscrowTxnIndex' = createEscrowTxnIndex + 1
    /\ pc' = "fund"
    /\ UNCHANGED <<executed, params, ledger, orderParams, totalMatchedQuantity, orderFeeBase,
                   orderFee, matchIndex, optInLookup, submitted, reads, result>>
    /\ UNCHANGED <<mvars, feevars, bvars>>

\* Step 3: the fund transfer to the market application.
AddFundTransfer ==
    /\ pc = "fund"
    /\ atc' = Append(atc, [type |-> "axfer", from |-> "TAKER", to |-> "MARKET",
                           assetId |-> FundAsset(orderParams.isBuying, orderParams.position),
                           amount |-> FundAmount(orderParams.isBuying, orderParams.quantity,
                                                 orderParams.price, orderParams.slippage,
                                                 orderFee)])
    /\ createEscrowTxnIndex' = createEscrowTxnIndex + 1
    /\ pc' = "escrow"
    /\ UNCHANGED <<executed, params, ledger, orderParams, totalMatchedQuantity, orderFeeBase,
                   orderFee, matchIndex, optInLookup, submitted, reads, result>>
    /\ UNCHANGED <<mvars, feevars, bvars>>

\* Step 4: the create_escrow call; matchIndex starts at 1.
AddCreateEscrow ==
    /\ pc = "escrow"
    /\ atc' = Append(atc, [type |-> "createEscrow", price |-> orderParams.price,
                           quantity |-> orderParams.quantity,
                           slippage |-> orderParams.slippage,
                           position |-> orderParams.position])
    /\ matchIndex' = 1
    /\ pc' = "matches"
    /\ UNCHANGED <<executed, params, ledger, orderParams, totalMatchedQuantity, orderFeeBase,
                   orderFee, createEscrowTxnIndex, optInLookup, submitted, reads, result>>
    /\ UNCHANGED <<mvars, feevars, bvars>>

\* Step 5, one iteration, with the proposal alone: no payment to the
\* counterparty escrow in front of it.
AddMatchWithoutPayment ==
    /\ pc = "matches"
    /\ matchIndex <= Len(orderParams.matchingOrders)
    /\ LET matchingOrder == MatchAt(orderParams.matchingOrders, matchIndex)
       IN  atc' = atc \o
                  <<[type |-> "proposeAMatch", maker |-> matchingOrder.escrowAppId,
                     quantityMatched |-> QuantityMatched(matchingOrder.quantity,
                                                         orderParams.quantity),
                     takerAddress |-> "TAKER", makerAddress |-> matchingOrder.owner,
                     feeAddress |-> "FEE",
                     takerAppCreatedIndexOffset |-> matchIndex * 2]>>
    /\ matchIndex' = matchIndex + 1
    /\ UNCHANGED <<executed, params, ledger, orderParams, totalMatchedQuantity, orderFeeBase,
                   orderFee, createEscrowTxnIndex, optInLookup, submitted, reads, result, pc>>
    /\ UNCHANGED <<mvars, feevars, bvars>>

\* Step 5, one iteration: the payment to the address of the counterparty
\* escrow application `app`, and the proposal of the match.
AddMatch ==
    /\ pc = "matches"
    /\ matchIndex <= Len(orderParams.matchingOrders)
    /\ LET matchingOrder == MatchAt(orderParams.matchingOrders, matchIndex)
       IN  atc' = atc \o
                  <<[type |-> "pay", from |-> "TAKER", to |-> "ESCROW",
                     app |-> matchingOrder.escrowAppId,
                     amount |-> 1000 * (IF orderParams.isBuying THEN 1 ELSE 2)],
                    [type |-> "proposeAMatch", maker |-> matchingOrder.escrowAppId,
                     quantityMatched |-> QuantityMatched(matchingOrder.quantity,
                                                         orderParams.quantity),
                     takerAddress |-> "TAKER", makerAddress |-> matchingOrder.owner,
                     feeAddress |-> "FEE",
                     takerAppCreatedIndexOffset |-> matchIndex * 2]>>
    /\ matchIndex' = matchIndex + 1
    /\ UNCHANGED <<executed, params, ledger, orderParams, totalMatchedQuantity, orderFeeBase,
                   orderFee, createEscrowTxnIndex, optInLookup, submitted, reads, result, pc>>
    /\ UNCHANGED <<mvars, feevars, bvars>>

\* A request made while the bundle is built (the global state of the
\* market, the suggested parameters of a transaction) rejects: createOrder
\* rejects with it.
BuildFails ==
    /\ pc \in {"state", "optin", "payment", "fund", "escrow", "matches"}
    /\ pc = "matches" => matchIndex <= Len(orderParams.matchingOrders)
    /\ result' = Rejected
    /\ pc' = "done"
    /\ UNCHANGED <<executed, params, ledger, orderParams, totalMatchedQuantity, orderFeeBase,
                   orderFee, atc, createEscrowTxnIndex, matchIndex, optInLookup,
                   submitted, reads>>
    /\ UNCHANGED <<mvars, feevars, bvars>>

\* atc.execute with a rejection swallowed: identifier resolution goes on
\* after a rejected bundle.
ExecuteSwallowingRejection ==
    /\ pc = "matches"
    /\ matchIndex > Len(orderParams.matchingOrders)
    /\ submitted' = Append(submitted, atc)
    /\ \E stale \in SUBSET ProposedMakers(atc), round \in LedgerRounds :
          \E confirmed \in (IF LedgerCanConfirm(stale) THEN BOOLEAN ELSE {FALSE}) :
              executed' = [status |-> IF confirmed THEN "confirmed" ELSE "rejected",
                           confirmedRound |-> IF confirmed THEN round ELSE 0,
                           stale |-> stale,
                           applied |-> LedgerApplies(atc, confirmed)]
    /\ pc' = "primary"
    /\ UNCHANGED <<params, ledger, orderParams, totalMatchedQuantity, orderFeeBase,
                   orderFee, atc, createEscrowTxnIndex, matchIndex, optInLookup, reads,
                   result>>
    /\ UNCHANGED <<mvars, feevars, bvars>>

\* atc.execute called again after a rejection, up to once more.
ExecuteRetrying ==
    /\ pc = "matches"
    /\ matchIndex > Len(orderParams.matchingOrders)
    /\ submitted' = Append(submitted, atc)
    /\ \E stale \in SUBSET ProposedMakers(atc), round \in LedgerRounds :
          \E confirmed \in (IF LedgerCanConfirm(stale) THEN BOOLEAN ELSE {FALSE}) :
              IF confirmed
              THEN /\ executed' = [status |-> "confirmed", confirmedRound |-> round,
                                   stale |-> stale,
                                   applied |-> LedgerApplies(atc, confirmed)]
                   /\ pc' = "primary"
                   /\ UNCHANGED result
              ELSE /\ executed' = [status |-> "rejected", confirmedRound |-> 0,
                                   stale |-> stale,
                                   applied |-> LedgerApplies(atc, confirmed)]
                   /\ IF submitted = <<>>
                      THEN UNCHANGED <<pc, result>>
                      ELSE pc' = "done" /\ result' = Rejected
    /\ UNCHANGED <<params, ledger, orderParams, totalMatchedQuantity, orderFeeBase,
                   orderFee, atc, createEscrowTxnIndex, matchIndex, optInLookup, reads>>
    /\ UNCHANGED <<mvars, feevars, bvars>>

\* atc.execute: the bundle is handed to the ledger, which confirms it in a
\* round or rejects it as a whole. The ledger rejects a bundle with a
\* proposal to an escrow that another party filled or cancelled since the
\* matching orders were read (`stale`); it may reject any bundle.
Execute ==
    /\ pc = "matches"
    /\ matchIndex > Len(orderParams.matchingOrders)
    /\ submitted' = Append(submitted, atc)
    /\ \E stale \in SUBSET ProposedMakers(atc), round \in LedgerRounds :
          \E confirmed \in (IF LedgerCanConfirm(stale) THEN BOOLEAN ELSE {FALSE}) :
              IF confirmed
              THEN /\ executed' = [status |-> "confirmed", confirmedRound |-> round,
                                   stale |-> stale,
                                   applied |-> LedgerApplies(atc, confirmed)]
                   /\ pc' = "primary"
                   /\ UNCHANGED result
              ELSE /\ executed' = [status |-> "rejected", confirmedRound |-> 0,
                                   stale |-> stale,
                                   applied |-> LedgerApplies(atc, confirmed)]
                   /\ pc' = "done"
                   /\ result' = Rejected
    /\ UNCHANGED <<params, ledger, orderParams, totalMatchedQuantity, orderFeeBase,
                   orderFee, atc, createEscrowTxnIndex, matchIndex, optInLookup, reads>>
    /\ UNCHANGED <<mvars, feevars, bvars>>

\* extractEscrowAppId, the read of the pending transaction from algod.
PrimaryRead ==
    /\ pc = "primary"
    /\ \E answer \in Answers :
          /\ reads' = Append(reads, [source |-> "algod", delayMs |-> 0,
                                     txId |-> createEscrowTxnIndex,
                                     yielded |-> (answer = "found")])
          /\ IF answer = "found"
             THEN pc' = "done" /\ result' = Resolved(CreatedApplicationIndex)
             ELSE pc' = "indexer" /\ UNCHANGED result
    /\ UNCHANGED <<executed, params, ledger, orderParams, totalMatchedQuantity, orderFeeBase,
                   orderFee, atc, createEscrowTxnIndex, matchIndex, optInLookup, submitted>>
    /\ UNCHANGED <<mvars, feevars, bvars>>

\* The iteration over backoffs going on after a lookup that yields the
\* identifier.
IndexerLookupKeepsPolling ==
    /\ pc = "indexer"
    /\ Len(reads) <= Len(backoffs)
    /\ \E answer \in Answers :
          /\ reads' = Append(reads, [source |-> "indexer", delayMs |-> backoffs[Len(reads)],
                                     txId |-> createEscrowTxnIndex,
                                     yielded |-> (answer = "found")])
          /\ IF answer = "found"
             THEN result' = Resolved(CreatedApplicationIndex)
             ELSE UNCHANGED result
    /\ UNCHANGED <<executed, params, ledger, orderParams, totalMatchedQuantity, orderFeeBase,
                   orderFee, atc, createEscrowTxnIndex, matchIndex, optInLookup, submitted,
                   pc>>
    /\ UNCHANGED <<mvars, feevars, bvars>>

\* extractEscrowAppId, one iteration over backoffs: the wait, then the
\* lookup in the indexer; `yielded` tells whether the lookup answered the
\* identifier.
IndexerLookup ==
    /\ pc = "indexer"
    /\ Len(reads) <= Len(backoffs)
    /\ \E answer \in Answers :
          /\ reads' = Append(reads, [source |-> "indexer", delayMs |-> backoffs[Len(reads)],
                                     txId |-> createEscrowTxnIndex,
                                     yielded |-> (answer = "found")])
          /\ IF answer = "found"
             THEN pc' = "done" /\ result' = Resolved(CreatedApplicationIndex)
             ELSE UNCHANGED <<pc, result>>
    /\ UNCHANGED <<executed, params, ledger, orderParams, totalMatchedQuantity, orderFeeBase,
                   orderFee, atc, createEscrowTxnIndex, matchIndex, optInLookup, submitted>>
    /\ UNCHANGED <<mvars, feevars, bvars>>

\* extractEscrowAppId raising after the last lookup.
ReturnUnresolvedRaising ==
    /\ pc = "indexer"
    /\ Len(reads) > Len(backoffs)
    /\ result' = Rejected
    /\ pc' = "done"
    /\ UNCHANGED <<executed, params, ledger, orderParams, totalMatchedQuantity, orderFeeBase,
                   orderFee, atc, createEscrowTxnIndex, matchIndex, optInLookup,
                   submitted, reads>>
    /\ UNCHANGED <<mvars, feevars, bvars>>

\* extractEscrowAppId after the last lookup: 0.
ReturnUnresolved ==
    /\ pc = "indexer"
    /\ Len(reads) > Len(backoffs)
    /\ result' = Resolved(0)
    /\ pc' = "done"
    /\ UNCHANGED <<executed, params, ledger, orderParams, totalMatchedQuantity, orderFeeBase,
                   orderFee, atc, createEscrowTxnIndex, matchIndex, optInLookup,
                   submitted, reads>>
    /\ UNCHANGED <<mvars, feevars, bvars>>

Next ==
    \/ CreateLimitOrder
    \/ CreateMarketOrder
    \/ ReadMarketState
    \/ CheckOptIn
    \/ AddPayment
    \/ AddFundTransfer
    \/ AddCreateEscrow
    \/ AddMatch
    \/ BuildFails
    \/ Execute
    \/ PrimaryRead
    \/ IndexerLookup
    \/ ReturnUnresolved

Spec == Init /\ [][Next]_vars

\* -------------------------------------------------------------------------
\* Properties of createOrder
\* -------------------------------------------------------------------------

IsOptIn(t) == t.type = "axfer" /\ t.to = "TAKER"

IsFunding(t) == t.type = "pay" /\ t.to = "MARKET"

IsPrincipal(t) == t.type = "axfer" /\ t.to = "MARKET"

IsCreateEscrow(t) == t.type = "createEscrow"

IsProposal(t) == t.type = "proposeAMatch"

IsCounterpartyPayment(t) == t.type = "pay" /\ t.to = "ESCROW"

\* The match list of the call: none for a limit order, the caller's list
\* when supplied, else the selection of the matching engine.
MatchList ==
    IF params.kind = "limit" THEN <<>>
    ELSE IF params.matchingOrders # None THEN params.matchingOrders[1]
    ELSE calculateMatchingOrders(orderbook, params.isBuying, params.position = 1,
                                 BigToInt(params.quantity), params.price, params.slippage)

\* The operations of a bundle other than the payments to counterparty escrows.
ListedOperations(bundle) == SelectSeq(bundle, LAMBDA t : ~IsCounterpartyPayment(t))

Proposals(bundle) == SelectSeq(bundle, IsProposal)

\* The slippage createOrder is called with.
CallSlippage == IF params.kind = "limit" THEN 0 ELSE params.slippage

\* C7: the bundle is submitted at most once and only when complete: an
\* optional registration step in first position only, then the funding
\* payment, the principal transfer, the escrow creation, then one proposal
\* per entry of the match list, in the order of the list (none for a limit
\* order); the bundle submitted is the bundle as it stays afterwards.
C7_BundleOrder ==
    /\ Len(submitted) <= 1
    /\ submitted # <<>> =>
         LET ops == ListedOperations(submitted[1])
             h == IF ops # <<>> /\ IsOptIn(ops[1]) THEN 1 ELSE 0
             n == Len(MatchList)
         IN  /\ submitted[1] = atc
             /\ Len(ops) = h + 3 + n
             /\ IsFunding(ops[h + 1])
             /\ IsPrincipal(ops[h + 2])
             /\ IsCreateEscrow(ops[h + 3])
             /\ \A k \in 1..n :
                   /\ IsProposal(ops[h + 3 + k])
                   /\ ops[h + 3 + k].maker = MatchList[k].escrowAppId
             /\ \A i \in 2..Len(atc) : ~IsOptIn(atc[i])
             /\ params.kind = "limit" => Proposals(atc) = <<>>

\* A submitted bundle of a market order that starts with the registration
\* step and proposes matches with two different orders the engine selected.
C7_Witness ==
    /\ submitted # <<>>
    /\ params.kind = "market"
    /\ params.matchingOrders = None
    /\ IsOptIn(atc[1])
    /\ Len(Proposals(atc)) = 2
    /\ Proposals(atc)[1].maker # Proposals(atc)[2].maker

\* C8: the principal transfer moves, for a buy,
\* floor(quantity * (price + slippage) / 1,000,000) + calculateFee(quantity,
\* price + slippage, feeBase) of USDC, and for a sell quantity of the outcome
\* token of the position; feeBase is the caller's value when supplied, else
\* the market's fee_base_percent.
C8_PrincipalTransfer ==
    \A i \in 1..Len(atc) :
        IsPrincipal(atc[i]) =>
            LET q == params.quantity
                ps == BigOfInt(params.price + CallSlippage)
                fb == IF params.feeBase # None THEN params.feeBase[1]
                      ELSE ledger.fee_base_percent
            IN  IF params.isBuying
                THEN /\ atc[i].assetId = "USDC"
                     /\ atc[i].amount =
                            SignedAddExact(BigDivModPowTen(BigMul(q, ps), 6).q,
                                           calculateFee(q, ps, BigOfInt(fb)))
                ELSE /\ atc[i].assetId = (IF params.position = 1 THEN "YES" ELSE "NO")
                     /\ atc[i].amount = [neg |-> FALSE, mag |-> q]

\* The quantities of the first k proposals of a bundle, added up.
RECURSIVE PlacedBefore(_, _)
PlacedBefore(proposals, k) ==
    IF k = 0 THEN 0 ELSE PlacedBefore(proposals, k - 1) + proposals[k].quantityMatched

\* C9: the k-th proposal of the bundle is for min(quantity of the k-th
\* match, order quantity less the quantities of the earlier proposals).
C9_ProposalQuantity ==
    LET proposals == Proposals(atc)
    IN  \A k \in 1..Len(proposals) :
            proposals[k].quantityMatched =
                Min(MatchList[k].quantity,
                    BigToInt(params.quantity) - PlacedBefore(proposals, k - 1))

\* The registration steps of the bundle, once the opt-in check is made.
RegistrationSteps == { i \in 1..Len(atc) : IsOptIn(atc[i]) }

\* The asset the taker of the call receives.
AssetToReceive ==
    IF params.isBuying THEN (IF params.position = 1 THEN "YES" ELSE "NO") ELSE "USDC"

\* C10 as stated: the bundle has a registration step exactly when the taker
\* does not hold the asset it receives; the step is a transfer of 0 of that
\* asset from the taker to itself, and there is at most one.
C10_RegistrationIffUnregistered ==
    optInLookup # "none" =>
        /\ (RegistrationSteps # {}) <=> (AssetToReceive \notin ledger.assets)
        /\ \A i \in RegistrationSteps :
              atc[i] = [type |-> "axfer", from |-> "TAKER", to |-> "TAKER",
                        assetId |-> AssetToReceive, amount |-> Zero]
        /\ Cardinality(RegistrationSteps) <= 1

\* C10 amended: the bundle has a registration step exactly when the taker
\* does not hold the asset it receives or the lookup of the taker's account
\* failed; the step is a transfer of 0 of that asset from the taker to
\* itself, in first position, and there is at most one.
C10_RegistrationIffCheckFails ==
    optInLookup # "none" =>
        /\ (RegistrationSteps # {}) <=>
              (AssetToReceive \notin ledger.assets \/ optInLookup = "threw")
        /\ \A i \in RegistrationSteps :
              /\ i = 1
              /\ atc[i] = [type |-> "axfer", from |-> "TAKER", to |-> "TAKER",
                           assetId |-> AssetToReceive, amount |-> Zero]
        /\ Cardinality(RegistrationSteps) <= 1

\* A buy whose taker holds the outcome token, with a registration step in
\* the bundle because the lookup of the account failed.
C10_Witness ==
    /\ optInLookup = "threw"
    /\ params.isBuying
    /\ AssetToReceive \in ledger.assets
    /\ RegistrationSteps = {1}
    /\ submitted # <<>>

\* -------------------------------------------------------------------------
\* Properties of the submission and of the identifier resolution
\* -------------------------------------------------------------------------

\* C11: the bundle is submitted at most once, and when the ledger rejects
\* it the call is over and rejected: the bundle submitted is the only one,
\* and no lookup of the created application is made.
C11_RejectedSubmissionRejects ==
    /\ Len(submitted) <= 1
    /\ executed.status = "rejected" =>
          /\ pc = "done"
          /\ result.status = "rejected"
          /\ submitted = <<atc>>
          /\ reads = <<>>

\* A market order whose bundle, with a proposal, the ledger rejected.
C11_Witness ==
    /\ executed.status = "rejected"
    /\ params.kind = "market"
    /\ Proposals(atc) # <<>>
    /\ result.status = "rejected"

\* C12: lookups are made after a confirmed submission only; the first
\* reads algod, the later ones the indexer, the k-th of them after a wait of
\* 1000, 1500, 2000, 3000, 5000, 8000 ms; a lookup that yields the
\* identifier is the last one, and the call returns that identifier.
C12_LookupOrder ==
    /\ reads # <<>> => executed.status = "confirmed" /\ reads[1].source = "algod"
    /\ Len(reads) <= 7
    /\ \A i \in 2..Len(reads) :
          /\ reads[i].source = "indexer"
          /\ reads[i].delayMs = <<1000, 1500, 2000, 3000, 5000, 8000>>[i - 1]
    /\ \A i \in 1..Len(reads) :
          reads[i].yielded =>
              /\ i = Len(reads)
              /\ pc = "done"
              /\ result.status = "resolved"
              /\ result.escrowAppId = CreatedApplicationIndex

\* The identifier found by the third lookup in the indexer.
C12_Witness ==
    /\ Len(reads) = 4
    /\ reads[4].yielded
    /\ pc = "done"

\* The calls the termination of the resolution is checked on: every kind
\* of call, side and position, at one price, quantity and fee base.
ResolveInit ==
    /\ Init
    /\ params.price = 500000
    /\ params.quantity = BigOfInt(1500000)
    /\ params.feeBase = None
    /\ ledger.assets \in {{}, Assets}

\* The steps of the identifier resolution are taken as long as one is
\* possible: every lookup is answered and every wait ends.
ResolveSpec ==
    /\ ResolveInit
    /\ [][Next]_vars
    /\ WF_vars(PrimaryRead)
    /\ WF_vars(IndexerLookup)
    /\ WF_vars(ReturnUnresolved)

\* The lookups of `source` among the lookups made.
LookupsOf(source) == { i \in 1..Len(reads) : reads[i].source = source }

\* A step of the identifier resolution leaves the bundles submitted, the
\* bundle built, the ledger and the answer of the submission as they are.
ResolutionOnlyReads ==
    pc \in {"primary", "indexer"} =>
        /\ submitted' = submitted
        /\ atc' = atc
        /\ ledger' = ledger
        /\ executed' = executed

\* C13: identifier resolution ends, after at most one read of algod and at
\* most six lookups in the indexer, and none of its steps submits a bundle
\* or changes the submitted one, the bundle built or the ledger.
C13_ResolutionTerminates ==
    /\ [](Cardinality(LookupsOf("algod")) <= 1 /\ Cardinality(LookupsOf("indexer")) <= 6)
    /\ [][ResolutionOnlyReads]_vars
    /\ (pc = "primary") ~> (pc = "done")

\* The resolution ended after the read of algod and six lookups in the
\* indexer.
C13_Witness ==
    /\ pc = "done"
    /\ Cardinality(LookupsOf("algod")) = 1
    /\ Cardinality(LookupsOf("indexer")) = 6

\* C14: when the bundle is confirmed and neither the read of algod nor any
\* of the six lookups in the indexer yields the identifier, the call
\* resolves with escrowAppId 0 and with the transaction identifiers and the
\* confirmation round of the bundle.
C14_UnresolvedIsSuccess ==
    (/\ pc = "done"
     /\ executed.status = "confirmed"
     /\ Len(reads) = 7
     /\ \A i \in 1..Len(reads) : ~reads[i].yielded)
    => /\ result.status = "resolved"
       /\ result.escrowAppId = 0
       /\ result.txIds = [i \in 1..Len(submitted[1]) |-> i - 1]
       /\ result.confirmedRound = executed.confirmedRound
       /\ result.confirmedRound \in LedgerRounds

\* A market order with proposals, over with seven lookups none of which
\* yielded the identifier.
C14_Witness ==
    /\ pc = "done"
    /\ executed.status = "confirmed"
    /\ Len(reads) = 7
    /\ \A i \in 1..Len(reads) : ~reads[i].yielded
    /\ Len(Proposals(atc)) = 2

\* C15: when an escrow a proposal of the bundle is made to was filled or
\* cancelled by another party since the matching orders were read, the
\* ledger rejects the bundle and none of its operations takes effect (no
\* escrow is created, no proposal is applied); the call is over and
\* rejected, and the one bundle submitted is the bundle built from the
\* match list, every proposal of the list in it.
C15_StaleCounterpartyFailsTrade ==
    executed.stale # {} =>
        /\ executed.status = "rejected"
        /\ executed.applied = <<>>
        /\ pc = "done"
        /\ result.status = "rejected"
        /\ submitted = <<atc>>
        /\ Len(Proposals(atc)) = Len(MatchList)
        /\ reads = <<>>

\* A market order matched by the engine with two resting orders, one of
\* which another party took before the bundle landed.
C15_Witness ==
    /\ Cardinality(executed.stale) = 1
    /\ params.kind = "market"
    /\ params.matchingOrders = None
    /\ Len(Proposals(atc)) = 2
    /\ result.status = "rejected"

\* -------------------------------------------------------------------------
\* The fee functions called on their own (src/utils/fees.ts)
\*
\* A price and a fee base are fixed, and calculateFee and
\* calculateFeeFromTotal are called with them on several quantities and
\* total amounts; each call is recorded with what it handed back.
\* -------------------------------------------------------------------------

\* The number of calls followed for one price and fee base.
MaxFeeCalls == 2

\* Prices: the ends of the range, the prices of the test suite, a price of
\* a few microunits, and one beyond certainty.
FeePrices == {<<>>, <<18>>, BigOfInt(100000), BigOfInt(500000), BigOfInt(1000000),
              BigOfInt(1500000)}

FeeBases == {<<>>, BigOfInt(70000), BigOfInt(1000000)}

\* Quantities up to 10^12 microunits.
FeeQuantities == {<<>>, BigOfInt(1000000), BigOfInt(1000001), BigOfInt(10000000),
                  <<339, 5061, 1110>>, <<339, 5061, 1111>>,
                  <<9999, 9999, 9999>>, PowTen(12)}

TotalAmounts == {<<>>, BigOfInt(1000000), PowTen(12)}

FeeInit ==
    /\ orderbook = BookOf(<<>>)
    /\ MatchIdle
    /\ FlowIdle
    /\ BookIdle
    /\ feeInput \in [price : FeePrices, feeBase : FeeBases]
    /\ feeCalls = {}
    /\ totalCalls = {}

\* calculateFee(quantity, price, feeBase)
CalculateFee ==
    /\ Cardinality(feeCalls) + Cardinality(totalCalls) < MaxFeeCalls
    /\ \E quantity \in FeeQuantities :
          /\ \A call \in feeCalls : call.quantity # quantity
          /\ feeCalls' = feeCalls \cup
                 {[quantity |-> quantity,
                   fee |-> calculateFee(quantity, feeInput.price, feeInput.feeBase)]}
    /\ UNCHANGED <<feeInput, totalCalls>>
    /\ UNCHANGED <<mvars, fvars, bvars>>

\* The amounts a buy of the quantity of an earlier call of calculateFee is
\* funded with at the price of the calls: floor(quantity * price / 1e6) + fee.
FundedTotals ==
    { BigAdd(BigDivMod(BigMul(call.quantity, feeInput.price), BigOfInt(ONE)).q, call.fee.mag) :
        call \in { c \in feeCalls : ~c.fee.neg } }

\* calculateFeeFromTotal(totalAmount, price, feeBase): the call hands back
\* a number unless an operation of it raised.
CalculateFeeFromTotal ==
    /\ Cardinality(feeCalls) + Cardinality(totalCalls) < MaxFeeCalls
    /\ \E totalAmount \in TotalAmounts \cup FundedTotals :
          /\ \A call \in totalCalls : call.totalAmount # totalAmount
          /\ LET value == calculateFeeFromTotal(totalAmount, feeInput.price,
                                                feeInput.feeBase)
             IN  totalCalls' = totalCalls \cup
                    {[totalAmount |-> totalAmount,
                      outcome |-> IF value.kind = "raised" THEN "raised" ELSE "returned",
                      value |-> value]}
    /\ UNCHANGED <<feeInput, feeCalls>>
    /\ UNCHANGED <<mvars, fvars, bvars>>

FeeNext == CalculateFee \/ CalculateFeeFromTotal

FeeSpec == FeeInit /\ [][FeeNext]_vars

\* -------------------------------------------------------------------------
\* Properties of the fee functions
\* -------------------------------------------------------------------------

\* The ceiling of the rational feeBase * quantity * price * (1000000 - price)
\* / 10^18, for price <= 1000000.
ExactFee(quantity, price, feeBase) ==
    LET product == BigMul(BigMul(BigMul(feeBase, quantity), price),
                          BigSub(BigOfInt(ONE), price))
        qr == BigDivModPowTen(product, 18)
    IN  IF qr.r = <<>> THEN qr.q ELSE BigAdd(qr.q, <<1>>)

InRealisticDomain(quantity) ==
    /\ BigCmp(feeInput.price, BigOfInt(ONE)) <= 0
    /\ BigCmp(feeInput.feeBase, BigOfInt(ONE)) <= 0
    /\ BigCmp(quantity, PowTen(12)) <= 0

\* C16: for 0 <= price <= 1,000,000, 0 <= feeBase <= 1,000,000 and
\* 0 <= quantity <= 10^12, every call of calculateFee hands back exactly
\* the ceiling of feeBase x quantity x price x (1,000,000 - price) / 10^18.
C16_FeeIsExactCeiling ==
    \A call \in feeCalls :
        InRealisticDomain(call.quantity) =>
            call.fee = [neg |-> FALSE,
                        mag |-> ExactFee(call.quantity, feeInput.price, feeInput.feeBase)]

\* C17: a call of calculateFee with price 0, price 1,000,000, quantity 0
\* or fee base 0 hands back exactly 0, whatever the other arguments are.
C17_DegenerateFeeIsZero ==
    \A call \in feeCalls :
        (\/ feeInput.price = <<>>
         \/ feeInput.price = BigOfInt(ONE)
         \/ call.quantity = <<>>
         \/ feeInput.feeBase = <<>>) => call.fee = Zero

\* At price 1,000,000 with a fee base of 7%, the calls with quantity 10^12
\* and with quantity 0 both made.
C17_Witness ==
    /\ feeInput = [price |-> BigOfInt(ONE), feeBase |-> BigOfInt(70000)]
    /\ {call.quantity : call \in feeCalls} = {PowTen(12), <<>>}
    /\ \A call \in feeCalls : call.fee = Zero

\* a <= b for two signed integers
SignedLeq(a, b) ==
    IF a.neg # b.neg THEN a.neg
    ELSE IF a.neg THEN BigCmp(a.mag, b.mag) >= 0
    ELSE BigCmp(a.mag, b.mag) <= 0

\* C18: for a price in [0, 1,000,000] and a fee base >= 0, of two calls
\* of calculateFee the one with the smaller quantity hands back a fee that
\* is not larger.
C18_FeeNonDecreasingInQuantity ==
    BigCmp(feeInput.price, BigOfInt(ONE)) <= 0 =>
        \A c1, c2 \in feeCalls :
            BigCmp(c1.quantity, c2.quantity) <= 0 => SignedLeq(c1.fee, c2.fee)

\* At price 500,000 and fee base 7%: one share costs 17500, and one
\* microunit more of quantity costs one microunit more of fee.
C18_Witness ==
    /\ feeInput = [price |-> BigOfInt(500000), feeBase |-> BigOfInt(70000)]
    /\ feeCalls = {[quantity |-> BigOfInt(1000000), fee |-> [neg |-> FALSE, mag |-> BigOfInt(17500)]],
                   [quantity |-> BigOfInt(1000001), fee |-> [neg |-> FALSE, mag |-> BigOfInt(17501)]]}

\* C19: a call of calculateFeeFromTotal with price 0, where the denominator
\* is 0, does not raise, for every total amount and fee base: it hands a
\* value back to the caller.
C19_ZeroPriceDoesNotRaise ==
    \A call \in totalCalls : feeInput.price = <<>> => call.outcome = "returned"

\* At price 0: the call of the test suite, of a total of 1,000,000 with a
\* fee base of 7%, and the call of a total of 0, both made.
C19_Witness ==
    /\ feeInput = [price |-> <<>>, feeBase |-> BigOfInt(70000)]
    /\ {call.totalAmount : call \in totalCalls} = {BigOfInt(1000000), <<>>}
    /\ \A call \in totalCalls : call.outcome = "returned"

\* C20: for price 0 the value calculateFeeFromTotal hands back is a finite
\* number, neither an infinity nor NaN.
C20_ZeroPriceGivesFiniteNumber ==
    \A call \in totalCalls : feeInput.price = <<>> => call.value.kind = "finite"

\* -------------------------------------------------------------------------
\* The orderbook read from the index (modules/orderbook.ts)
\*
\* The market created the escrow applications 1..Len(escrows); escrow i is
\* [globalState, destroyed, deleted]: its state, whether the ledger has
\* destroyed it, and the deleted flag the index lists it with.
\* -------------------------------------------------------------------------

\* The number of escrow applications of the market.
MaxEscrows == 2

Wallets == {"WALLET", "OTHER"}

\* The state an escrow holds: an order of 1,000,000 at 400,000, unfilled,
\* partly filled or filled, a limit order or one with slippage.
EscrowStates ==
    [position : {0, 1}, side : {0, 1}, price : {400000}, quantity : {1000000},
     quantity_filled : {0, 400000, 1000000}, slippage : {0, 50000}, owner : Wallets]

EscrowLists(states) ==
    UNION { [1..n -> [globalState : states, destroyed : {FALSE}, deleted : {FALSE}]] :
            n \in 0..MaxEscrows }

\* How lookupApplications answers for each application of one call: with
\* the state, with no state, or by throwing; at most one lookup of a call
\* does not give the state.
LookupAnswers(n) ==
    { a \in [1..n -> {"state", "none", "threw"}] :
        Cardinality({ i \in 1..n : a[i] # "state" }) <= 1 }

\* globalState.key ?? default
Get(globalState, key, default) ==
    IF key \in DOMAIN globalState THEN globalState[key] ELSE default

\* The applications lookupAccountCreatedApplications lists for the market.
Listing(index) == [i \in 1..Len(index) |-> [id |-> i, deleted |-> index[i].deleted]]

\* The page size of getAllCreatedApplications.
limit == 100

\* The pages of the listing from nextToken on, put together.
RECURSIVE FetchPages(_, _)
FetchPages(listing, nextToken) ==
    LET page == SubSeq(listing, nextToken + 1, Min(nextToken + limit, Len(listing)))
    IN  IF nextToken + limit < Len(listing)
        THEN page \o FetchPages(listing, nextToken + limit)
        ELSE page

\* getAllCreatedApplications without the filter on the deleted flag.
getAllCreatedApplicationsUnfiltered(index) == FetchPages(Listing(index), 0)

getAllCreatedApplications(index) ==
    SelectSeq(FetchPages(Listing(index), 0), LAMBDA a : a.deleted = FALSE)

\* fetchApplicationsGlobalState where one lookup that throws fails them all
\* and the caller is left with no application.
fetchApplicationsGlobalStateAllOrNothing(index, applications, answers) ==
    IF \E k \in 1..Len(applications) : answers[applications[k].id] = "threw"
    THEN <<>>
    ELSE [k \in 1..Len(applications) |->
            [appId |-> applications[k].id,
             globalState |-> IF answers[applications[k].id] = "none" THEN <<>>
                             ELSE index[applications[k].id].globalState]]

\* One EscrowApp per application: appId 0 and an empty state when the
\* lookup threw, an empty state when the answer held none.
fetchApplicationsGlobalState(index, applications, answers) ==
    [k \in 1..Len(applications) |->
        LET appId == applications[k].id
        IN  IF answers[appId] = "threw"
            THEN [appId |-> 0, globalState |-> <<>>]
            ELSE [appId |-> appId,
                  globalState |-> IF answers[appId] = "none" THEN <<>>
                                  ELSE index[appId].globalState]]

\* isOpenLimitOrder without the test of the slippage.
isOpenLimitOrderAnySlippage(o) ==
    Get(o.globalState, "quantity", 0) > Get(o.globalState, "quantity_filled", 0)

isOpenLimitOrder(o) ==
    /\ Get(o.globalState, "quantity", 0) > Get(o.globalState, "quantity_filled", 0)
    /\ "slippage" \in DOMAIN o.globalState
    /\ o.globalState.slippage = 0

\* appsWithState.filter(side === s && position === p && isOpenLimitOrder)
OrdersOfBucket(appsWithState, side, position) ==
    SelectSeq(appsWithState,
              LAMBDA o : /\ "side" \in DOMAIN o.globalState
                         /\ o.globalState.side = side
                         /\ "position" \in DOMAIN o.globalState
                         /\ o.globalState.position = position
                         /\ isOpenLimitOrder(o))

transformOrders(orders) ==
    LET kept == SelectSeq(orders, LAMBDA o : o.appId > 0)
    IN  [k \in 1..Len(kept) |->
            [price |-> Get(kept[k].globalState, "price", 0),
             quantity |-> Get(kept[k].globalState, "quantity", 0)
                          - Get(kept[k].globalState, "quantity_filled", 0),
             escrowAppId |-> kept[k].appId,
             owner |-> Get(kept[k].globalState, "owner", "")]]

getOrderbook(index, answers) ==
    LET applications == getAllCreatedApplications(index)
        appsWithState == fetchApplicationsGlobalState(index, applications, answers)
    IN  [yes |-> [bids |-> transformOrders(OrdersOfBucket(appsWithState, 1, 1)),
                  asks |-> transformOrders(OrdersOfBucket(appsWithState, 0, 1))],
         no  |-> [bids |-> transformOrders(OrdersOfBucket(appsWithState, 1, 0)),
                  asks |-> transformOrders(OrdersOfBucket(appsWithState, 0, 0))]]

\* The applications the index lists as deleted.
ListedDeleted == { i \in 1..Len(escrows) : escrows[i].deleted }

NoView ==
    [call |-> "none", wallet |-> "", answers |-> <<>>, deleted |-> {},
     book |-> BookOf(<<>>), orders |-> <<>>]

NoCancel ==
    [status |-> "none", escrowAppId |-> 0, orderOwner |-> "", submitted |-> <<>>,
     success |-> FALSE]

BookInit ==
    /\ orderbook = BookOf(<<>>)
    /\ MatchIdle
    /\ FlowIdle
    /\ FeeIdle
    /\ escrows \in EscrowLists(EscrowStates)
    /\ view = NoView
    /\ cancel = NoCancel
    /\ SharesIdle

\* getOrderbook(config, marketAppId); one call of getOrderbook or of
\* getOpenOrders is followed.
GetOrderbook ==
    /\ view.call = "none"
    /\ \E answers \in LookupAnswers(Len(escrows)) :
          view' = [call |-> "getOrderbook", wallet |-> "", answers |-> answers,
                   deleted |-> ListedDeleted,
                   book |-> getOrderbook(escrows, answers), orders |-> <<>>]
    /\ UNCHANGED <<escrows, cancel>>
    /\ UNCHANGED <<mvars, fvars, feevars, holdings, shareCalls>>

\* getOpenOrders without the test of the owner.
getOpenOrdersOfAnyOwner(index, answers, owner) ==
    LET applications == getAllCreatedApplications(index)
        appsWithState == fetchApplicationsGlobalState(index, applications, answers)
        kept == SelectSeq(appsWithState,
                          LAMBDA o : Get(o.globalState, "quantity", 0)
                                     > Get(o.globalState, "quantity_filled", 0))
    IN  [k \in 1..Len(kept) |->
            [escrowAppId |-> kept[k].appId,
             marketAppId |-> "MARKET",
             position |-> Get(kept[k].globalState, "position", 0),
             side |-> Get(kept[k].globalState, "side", 0),
             price |-> Get(kept[k].globalState, "price", 0),
             quantity |-> Get(kept[k].globalState, "quantity", 0),
             quantityFilled |-> Get(kept[k].globalState, "quantity_filled", 0),
             slippage |-> Get(kept[k].globalState, "slippage", 0),
             owner |-> Get(kept[k].globalState, "owner", "")]]

getOpenOrders(index, answers, owner) ==
    LET applications == getAllCreatedApplications(index)
        appsWithState == fetchApplicationsGlobalState(index, applications, answers)
        kept == SelectSeq(appsWithState,
                          LAMBDA o : /\ "owner" \in DOMAIN o.globalState
                                     /\ o.globalState.owner = owner
                                     /\ Get(o.globalState, "quantity", 0)
                                        > Get(o.globalState, "quantity_filled", 0))
    IN  [k \in 1..Len(kept) |->
            [escrowAppId |-> kept[k].appId,
             marketAppId |-> "MARKET",
             position |-> Get(kept[k].globalState, "position", 0),
             side |-> Get(kept[k].globalState, "side", 0),
             price |-> Get(kept[k].globalState, "price", 0),
             quantity |-> Get(kept[k].globalState, "quantity", 0),
             quantityFilled |-> Get(kept[k].globalState, "quantity_filled", 0),
             slippage |-> Get(kept[k].globalState, "slippage", 0),
             owner |-> Get(kept[k].globalState, "owner", "")]]

\* getOpenOrders(config, marketAppId, walletAddress)
GetOpenOrders ==
    /\ view.call = "none"
    /\ \E answers \in LookupAnswers(Len(escrows)), wallet \in Wallets :
          view' = [call |-> "getOpenOrders", wallet |-> wallet, answers |-> answers,
                   deleted |-> ListedDeleted,
                   book |-> BookOf(<<>>),
                   orders |-> getOpenOrders(escrows, answers, wallet)]
    /\ UNCHANGED <<escrows, cancel>>
    /\ UNCHANGED <<mvars, fvars, feevars, holdings, shareCalls>>

BookNext == GetOrderbook \/ GetOpenOrders

BookSpec == BookInit /\ [][BookNext]_vars

\* -------------------------------------------------------------------------
\* Properties of the orderbook and of the open orders
\* -------------------------------------------------------------------------

\* The entries of one bucket of a book.
BucketEntries(book, b) ==
    IF b = "yes.bids" THEN book.yes.bids
    ELSE IF b = "yes.asks" THEN book.yes.asks
    ELSE IF b = "no.bids" THEN book.no.bids
    ELSE book.no.asks

\* The bucket of a position and a side: 1 is YES, 1 is a buy.
BucketFor(position, side) ==
    IF position = 1 THEN (IF side = 1 THEN "yes.bids" ELSE "yes.asks")
    ELSE (IF side = 1 THEN "no.bids" ELSE "no.asks")

\* The places <<bucket, k>> of the book that hold an entry of escrow i.
PlacesOf(book, i) ==
    { bk \in Buckets \X (1..MaxEscrows + 1) :
        /\ bk[2] <= Len(BucketEntries(book, bk[1]))
        /\ BucketEntries(book, bk[1])[bk[2]].escrowAppId = i }

\* The escrow record i was listed and decoded by the call of the view.
Decoded(i) == i \notin view.deleted /\ view.answers[i] = "state"

\* C21: the book getOrderbook returns holds an entry for an escrow record
\* if and only if the record decoded, quantity > quantity_filled,
\* slippage = 0 and position and side are each 0 or 1; the entry is in
\* the one bucket of (position, side) and nowhere else, its quantity is
\* quantity - quantity_filled, and every entry of the book has a quantity
\* greater than 0 and is the entry of an escrow record.
C21_BookHoldsOpenLimitOrders ==
    view.call = "getOrderbook" =>
        /\ \A i \in 1..Len(escrows) :
              LET gs == escrows[i].globalState
                  places == PlacesOf(view.book, i)
              IN  /\ (places # {}) <=>
                        (/\ Decoded(i)
                         /\ gs.quantity > gs.quantity_filled
                         /\ gs.slippage = 0
                         /\ gs.position \in {0, 1}
                         /\ gs.side \in {0, 1})
                  /\ \A bk \in places :
                        /\ places = {bk}
                        /\ bk[1] = BucketFor(gs.position, gs.side)
                        /\ BucketEntries(view.book, bk[1])[bk[2]].quantity
                              = gs.quantity - gs.quantity_filled
        /\ \A b \in Buckets : \A k \in 1..Len(BucketEntries(view.book, b)) :
              /\ BucketEntries(view.book, b)[k].quantity > 0
              /\ BucketEntries(view.book, b)[k].escrowAppId \in 1..Len(escrows)

\* A book read from two escrows: a partly filled limit sell of NO, which
\* is in no.asks with what is left of it, and an order with slippage,
\* which is in no bucket.
C21_Witness ==
    /\ view.call = "getOrderbook"
    /\ Len(escrows) = 2
    /\ escrows[1].globalState.slippage = 50000
    /\ escrows[1].globalState.quantity_filled = 0
    /\ view.answers = <<"state", "state">>
    /\ view.book.no.asks = <<[price |-> 400000, quantity |-> 600000,
                               escrowAppId |-> 2, owner |-> "OTHER"]>>
    /\ view.book.yes.bids = <<>> /\ view.book.yes.asks = <<>> /\ view.book.no.bids = <<>>

\* The positions of the list of open orders that hold escrow i.
OrdersOf(orders, i) == { k \in 1..Len(orders) : orders[k].escrowAppId = i }

\* C22: getOpenOrders(market, wallet) returns exactly the decoded escrow
\* records whose owner is the wallet and whose quantity > quantity_filled,
\* whatever their slippage, once each and in the order of the index, with
\* the raw quantity, filled quantity and slippage of the record; a record
\* of another owner or a filled record is not returned.
C22_OpenOrdersOfWallet ==
    view.call = "getOpenOrders" =>
        /\ \A i \in 1..Len(escrows) :
              LET gs == escrows[i].globalState
              IN  /\ (OrdersOf(view.orders, i) # {}) <=>
                        (/\ Decoded(i)
                         /\ gs.owner = view.wallet
                         /\ gs.quantity > gs.quantity_filled)
                  /\ Cardinality(OrdersOf(view.orders, i)) <= 1
                  /\ \A k \in OrdersOf(view.orders, i) :
                        /\ view.orders[k].quantity = gs.quantity
                        /\ view.orders[k].quantityFilled = gs.quantity_filled
                        /\ view.orders[k].slippage = gs.slippage
                        /\ view.orders[k].owner = view.wallet
                        /\ view.orders[k].price = gs.price
                        /\ view.orders[k].position = gs.position
                        /\ view.orders[k].side = gs.side
        /\ \A k \in 1..Len(view.orders) :
              /\ view.orders[k].escrowAppId \in 1..Len(escrows)
              /\ k > 1 => view.orders[k - 1].escrowAppId < view.orders[k].escrowAppId

\* The open orders of WALLET read from two escrows: its own partly filled
\* order with slippage, which is returned with its raw amounts, and an
\* unfilled limit order of OTHER, which is not.
C22_Witness ==
    /\ view.call = "getOpenOrders"
    /\ view.wallet = "WALLET"
    /\ Len(escrows) = 2
    /\ view.answers = <<"state", "state">>
    /\ escrows[2].globalState.owner = "OTHER"
    /\ escrows[2].globalState.quantity_filled = 0
    /\ escrows[2].globalState.slippage = 0
    /\ Len(view.orders) = 1
    /\ view.orders[1].escrowAppId = 1
    /\ view.orders[1].quantity = 1000000
    /\ view.orders[1].quantityFilled = 400000
    /\ view.orders[1].slippage = 50000

\* The escrow identifiers of the entries a call returned.
ReturnedIds ==
    IF view.call = "getOrderbook"
    THEN UNION { { BucketEntries(view.book, b)[k].escrowAppId :
                     k \in 1..Len(BucketEntries(view.book, b)) } : b \in Buckets }
    ELSE { view.orders[k].escrowAppId : k \in 1..Len(view.orders) }

\* The record of escrow i is one the call of the view is to return.
QualifiesForView(i) ==
    LET gs == escrows[i].globalState
    IN  IF view.call = "getOrderbook"
        THEN gs.quantity > gs.quantity_filled /\ gs.slippage = 0
        ELSE gs.quantity > gs.quantity_filled /\ gs.owner = view.wallet

\* C23: when the state lookup of an escrow record throws or returns no
\* state, getOrderbook and getOpenOrders still return: the record is not
\* among what they return, every other listed record that qualifies is,
\* and no entry has escrowAppId 0.
C23_FailedLookupDropsOnlyThatRecord ==
    (view.call # "none" /\ \E i \in 1..Len(escrows) : view.answers[i] # "state") =>
        /\ 0 \notin ReturnedIds
        /\ \A i \in 1..Len(escrows) :
              IF view.answers[i] # "state" \/ i \in view.deleted
              THEN i \notin ReturnedIds
              ELSE (i \in ReturnedIds) <=> QualifiesForView(i)

\* Two unfilled orders of WALLET; the lookup of the first threw, and
\* getOpenOrders returned the second alone.
C23_Witness ==
    /\ view.call = "getOpenOrders"
    /\ view.wallet = "WALLET"
    /\ Len(escrows) = 2
    /\ \A i \in 1..2 : /\ escrows[i].globalState.owner = "WALLET"
                         /\ escrows[i].globalState.quantity_filled = 0
    /\ view.answers = <<"threw", "state">>
    /\ ReturnedIds = {2}

\* -------------------------------------------------------------------------
\* cancelOrder (modules/trading.ts) and the index after it
\* -------------------------------------------------------------------------

\* The escrows of the runs with a cancellation: open orders, limit orders
\* or not, of either wallet.
OpenEscrowStates ==
    [position : {1}, side : {1}, price : {400000}, quantity : {1000000},
     quantity_filled : {0, 400000}, slippage : {0, 50000}, owner : Wallets]

CancelInit ==
    /\ orderbook = BookOf(<<>>)
    /\ MatchIdle
    /\ FlowIdle
    /\ FeeIdle
    /\ escrows \in EscrowLists(OpenEscrowStates)
    /\ view = NoView
    /\ cancel = NoCancel
    /\ SharesIdle

\* The bundle of cancelOrder: the one call market_app.delete_escrow.
DeleteBundle(escrowAppId, orderOwner) ==
    <<[type |-> "deleteEscrow", sender |-> orderOwner, escrowAppId |-> escrowAppId,
       algoReceiver |-> orderOwner, apps |-> <<escrowAppId>>,
       accounts |-> <<orderOwner>>, fee |-> 7000]>>

\* The ledger after a confirmed delete_escrow: the escrow is destroyed.
LedgerDestroys(index, escrowAppId) == [index EXCEPT ![escrowAppId].destroyed = TRUE]

\* cancelOrder(config, {marketAppId, escrowAppId, orderOwner}): the market
\* state is read, the bundle is built and executed; the call returns
\* success when the ledger confirmed and rejects otherwise. One call of
\* cancelOrder is followed.
CancelOrder ==
    /\ cancel.status = "none"
    /\ \E escrowAppId \in 1..Len(escrows), orderOwner \in Wallets,
          marketRead \in {"state", "threw"} :
          IF marketRead = "threw"
          THEN /\ cancel' = [status |-> "rejected", escrowAppId |-> escrowAppId,
                             orderOwner |-> orderOwner, submitted |-> <<>>,
                             success |-> FALSE]
               /\ UNCHANGED escrows
          ELSE \E confirmed \in (IF escrows[escrowAppId].destroyed THEN {FALSE} ELSE BOOLEAN) :
                 /\ cancel' = [status |-> IF confirmed THEN "confirmed" ELSE "rejected",
                               escrowAppId |-> escrowAppId, orderOwner |-> orderOwner,
                               submitted |-> <<DeleteBundle(escrowAppId, orderOwner)>>,
                               success |-> confirmed]
                 /\ escrows' = IF confirmed THEN LedgerDestroys(escrows, escrowAppId)
                               ELSE escrows
    /\ UNCHANGED view
    /\ UNCHANGED <<mvars, fvars, feevars, holdings, shareCalls>>

\* The index catches up with the ledger: it lists a destroyed escrow as
\* deleted from now on.
IndexCatchUp ==
    /\ \E i \in 1..Len(escrows) :
          /\ escrows[i].destroyed
          /\ ~escrows[i].deleted
          /\ escrows' = [escrows EXCEPT ![i].deleted = TRUE]
    /\ UNCHANGED <<view, cancel>>
    /\ UNCHANGED <<mvars, fvars, feevars, holdings, shareCalls>>

CancelNext == CancelOrder \/ IndexCatchUp \/ GetOrderbook \/ GetOpenOrders

CancelSpec == CancelInit /\ [][CancelNext]_vars

\* C24: cancelOrder submits one bundle of a single operation, the
\* delete_escrow of the given escrow with the supplied orderOwner as the
\* receiver; and an escrow whose cancellation the ledger confirmed and that
\* the index lists as deleted is not returned by a call of getOpenOrders
\* or getOrderbook made from then on.
C24_CancelledOrderIsGone ==
    /\ cancel.submitted # <<>> =>
          /\ Len(cancel.submitted) = 1
          /\ Len(cancel.submitted[1]) = 1
          /\ cancel.submitted[1][1].type = "deleteEscrow"
          /\ cancel.submitted[1][1].escrowAppId = cancel.escrowAppId
          /\ cancel.submitted[1][1].algoReceiver = cancel.orderOwner
    /\ cancel.success <=> cancel.status = "confirmed"
    /\ \A i \in 1..Len(escrows) :
          escrows[i].destroyed <=> (cancel.status = "confirmed" /\ cancel.escrowAppId = i)
    /\ view.call # "none" => \A i \in view.deleted : i \notin ReturnedIds

\* WALLET cancelled its open limit order, escrow 1; the cancel confirmed
\* and the index caught up; getOpenOrders of WALLET, called after that,
\* returned the other open order of WALLET alone.
C24_Witness ==
    /\ Len(escrows) = 2
    /\ \A i \in 1..2 : /\ escrows[i].globalState.owner = "WALLET"
                         /\ escrows[i].globalState.slippage = 0
    /\ cancel.status = "confirmed"
    /\ cancel.escrowAppId = 1
    /\ cancel.orderOwner = "WALLET"
    /\ view.call = "getOpenOrders"
    /\ view.wallet = "WALLET"
    /\ view.deleted = {1}
    /\ view.answers = <<"state", "state">>
    /\ ReturnedIds = {2}

\* -------------------------------------------------------------------------
\* splitShares and mergeShares (modules/trading.ts)
\*
\* holdings is the active wallet's [USDC, YES, NO, optedIn]; each call is
\* recorded in shareCalls with the bundle it submitted, the ledger's answer
\* and the balances before it.
\* -------------------------------------------------------------------------

\* The number of calls of splitShares / mergeShares followed.
MaxShareCalls == 2

ShareAmounts == {100000, 200000}

\* The wallets: balances of 0, one amount or more, registered for every
\* asset they hold and possibly for the others.
WalletHoldings ==
    { h \in [USDC : {0, 100000, 300000}, YES : {0, 100000}, NO : {0, 100000},
             optedIn : SUBSET Assets] :
        \A a \in Assets : h[a] > 0 => a \in h.optedIn }

SharesInit ==
    /\ orderbook = BookOf(<<>>)
    /\ MatchIdle
    /\ FlowIdle
    /\ FeeIdle
    /\ escrows = <<>> /\ view = <<>> /\ cancel = <<>>
    /\ holdings \in WalletHoldings
    /\ shareCalls = <<>>

\* The registration of the wallet for an asset: a transfer of 0 to itself.
OptInTxn(assetId) ==
    [type |-> "axfer", from |-> "WALLET", to |-> "WALLET", assetId |-> assetId, amount |-> 0]

\* The registrations a bundle starts with: one for each asset of the list
\* whose check did not find the wallet registered.
RECURSIVE OptIns(_, _, _)
OptIns(assetIds, assets, threw) ==
    IF assetIds = <<>> THEN <<>>
    ELSE (IF checkAssetOptIn(assets, assetIds[1], threw[1]) THEN <<>>
          ELSE <<OptInTxn(assetIds[1])>>)
         \o OptIns(Tail(assetIds), assets, Tail(threw))

AlgoPayment(optInCosts) ==
    [type |-> "pay", from |-> "WALLET", to |-> "MARKET", assetId |-> "ALGO",
     amount |-> 5000 + optInCosts]

AssetTransfer(assetId, amount) ==
    [type |-> "axfer", from |-> "WALLET", to |-> "MARKET", assetId |-> assetId,
     amount |-> amount]

\* The bundle of splitShares: registrations for YES and NO where needed,
\* the payment, the transfer of the USDC, the call split_shares.
SplitBundle(amount, assets, threw) ==
    LET optIns == OptIns(<<"YES", "NO">>, assets, threw)
    IN  optIns \o <<AlgoPayment(1000 * Len(optIns)),
                    AssetTransfer("USDC", amount),
                    [type |-> "split_shares"]>>

\* mergeShares handing over twice the amount of each token.
MergeBundleTwice(amount, assets, threw) ==
    LET optIns == OptIns(<<"USDC">>, assets, threw)
    IN  optIns \o <<AlgoPayment(1000 * Len(optIns)),
                    AssetTransfer("YES", 2 * amount),
                    AssetTransfer("NO", 2 * amount),
                    [type |-> "merge_shares"]>>

\* The bundle of mergeShares: a registration for USDC where needed, the
\* payment, the transfers of the YES and of the NO, the call merge_shares.
MergeBundle(amount, assets, threw) ==
    LET optIns == OptIns(<<"USDC">>, assets, threw)
    IN  optIns \o <<AlgoPayment(1000 * Len(optIns)),
                    AssetTransfer("YES", amount),
                    AssetTransfer("NO", amount),
                    [type |-> "merge_shares"]>>

\* What a bundle moves of an asset out of the wallet to the market.
RECURSIVE Transferred(_, _)
Transferred(bundle, assetId) ==
    IF bundle = <<>> THEN 0
    ELSE (IF bundle[1].type = "axfer" /\ bundle[1].to = "MARKET"
             /\ bundle[1].assetId = assetId
          THEN bundle[1].amount ELSE 0) + Transferred(Tail(bundle), assetId)

\* The ledger can confirm a bundle when the wallet holds what the bundle
\* moves out of it and, for a merge, as much YES as NO is handed over.
LedgerCanSettle(h, bundle) ==
    /\ \A a \in Assets : Transferred(bundle, a) <= h[a]
    /\ Transferred(bundle, "YES") = Transferred(bundle, "NO")

\* The wallet after a confirmed bundle: what the bundle moved is gone;
\* split_shares pays the USDC handed over out as YES and as NO, and
\* merge_shares pays the tokens handed over out as USDC; the wallet is
\* registered for every asset of the market.
LedgerSettles(h, bundle) ==
    LET usdc == Transferred(bundle, "USDC")
        tokens == Transferred(bundle, "YES")
    IN  [USDC |-> h.USDC - usdc + tokens,
         YES |-> h.YES - tokens + usdc,
         NO |-> h.NO - tokens + usdc,
         optedIn |-> Assets]

\* One call of splitShares or mergeShares: the market state is read, the
\* registrations are checked, the bundle is built and executed once; the
\* call returns {success: true, txIds, confirmedRound} when the ledger
\* confirmed and rejects otherwise.
ShareCall(call, amount, bundle, marketRead) ==
    /\ Len(shareCalls) < MaxShareCalls
    /\ IF marketRead = "threw"
       THEN /\ shareCalls' = Append(shareCalls,
                   [call |-> call, amount |-> amount, before |-> holdings,
                    submitted |-> <<>>, success |-> FALSE, confirmedRound |-> 0])
            /\ UNCHANGED holdings
       ELSE \E confirmed \in (IF LedgerCanSettle(holdings, bundle) THEN BOOLEAN ELSE {FALSE}),
               round \in LedgerRounds :
              /\ shareCalls' = Append(shareCalls,
                     [call |-> call, amount |-> amount, before |-> holdings,
                      submitted |-> <<bundle>>, success |-> confirmed,
                      confirmedRound |-> IF confirmed THEN round ELSE 0])
              /\ holdings' = IF confirmed THEN LedgerSettles(holdings, bundle) ELSE holdings
    /\ UNCHANGED <<escrows, view, cancel>>
    /\ UNCHANGED <<mvars, fvars, feevars>>

\* splitShares(config, {marketAppId, amount})
SplitShares ==
    \E amount \in ShareAmounts, threw \in [1..2 -> BOOLEAN], marketRead \in {"state", "threw"} :
        ShareCall("split", amount, SplitBundle(amount, holdings.optedIn, threw), marketRead)

\* mergeShares(config, {marketAppId, amount})
MergeShares ==
    \E amount \in ShareAmounts, threw \in [1..1 -> BOOLEAN], marketRead \in {"state", "threw"} :
        ShareCall("merge", amount, MergeBundle(amount, holdings.optedIn, threw), marketRead)

SharesNext == SplitShares \/ MergeShares

SharesSpec == SharesInit /\ [][SharesNext]_vars

\* A split followed immediately by a merge of the same amount.
SplitThenMerge ==
    /\ Len(shareCalls) >= 2
    /\ shareCalls[1].call = "split"
    /\ shareCalls[2].call = "merge"
    /\ shareCalls[1].amount = shareCalls[2].amount

\* C25: for any wallet and amount, after splitShares(amount) followed
\* immediately by mergeShares(amount) both calls have succeeded with a
\* confirmation height greater than 0 and the wallet's YES and NO balances
\* are back at their values before the split.
C25_SplitMergeAlwaysRestores ==
    (SplitThenMerge /\ Len(shareCalls) = 2) =>
        /\ \A k \in 1..2 : shareCalls[k].success /\ shareCalls[k].confirmedRound > 0
        /\ holdings.YES = shareCalls[1].before.YES
        /\ holdings.NO = shareCalls[1].before.NO

\* C25, amended: when splitShares(amount) and the mergeShares(amount) that
\* follows it are both confirmed by the ledger, both calls have succeeded
\* with a confirmation height greater than 0 and the wallet's YES and NO
\* balances are back at their values before the split; a call the ledger
\* did not confirm has not succeeded and has left the balances as they were.
C25_ConfirmedSplitMergeRestores ==
    /\ (SplitThenMerge /\ Len(shareCalls) = 2
          /\ shareCalls[1].success /\ shareCalls[2].success) =>
            /\ \A k \in 1..2 : shareCalls[k].confirmedRound > 0
            /\ holdings.YES = shareCalls[1].before.YES
            /\ holdings.NO = shareCalls[1].before.NO
            /\ holdings.USDC = shareCalls[1].before.USDC
    /\ \A k \in 1..Len(shareCalls) :
          ~shareCalls[k].success =>
              /\ shareCalls[k].confirmedRound = 0
              /\ (IF k < Len(shareCalls) THEN shareCalls[k + 1].before ELSE holdings)
                    = shareCalls[k].before

\* A wallet holding 100,000 YES and no NO splits 200,000 and merges
\* 200,000, both confirmed: it holds 300,000 YES in between and 100,000
\* YES and no NO afterwards.
C25_Witness ==
    /\ SplitThenMerge
    /\ Len(shareCalls) = 2
    /\ shareCalls[1].amount = 200000
    /\ shareCalls[1].before.YES = 100000
    /\ shareCalls[1].before.NO = 0
    /\ shareCalls[1].success /\ shareCalls[2].success
    /\ shareCalls[2].before.YES = 300000
    /\ holdings.YES = 100000 /\ holdings.NO = 0

\* -------------------------------------------------------------------------
\* The fee and the layout of the bundle of createOrder
\* -------------------------------------------------------------------------

\* C26: the fee createOrder computes, for a buy with price + slippage as
\* the price, is never negative, and the fund transfer of a buy is never
\* smaller than floor(quantity * (price + slippage) / 1,000,000).
C26_FeeNeverNegative ==
    /\ ~orderFee.neg
    /\ (pc = "escrow" /\ orderParams.isBuying) =>
          SignedLeq([neg |-> FALSE,
                     mag |-> JsFloorDivMillion(JsMul(orderParams.quantity,
                                 BigOfInt(orderParams.price + orderParams.slippage)))],
                    atc[Len(atc)].amount)

\* The positions, counted from 0, of the escrow-creation call in a bundle.
EscrowCreations(bundle) ==
    { i \in 0..(Len(bundle) - 1) : bundle[i + 1].type = "createEscrow" }

\* C27: in every bundle createOrder submits, with or without the opt-in
\* and with any number of proposals, the escrow-creation call is at
\* position createEscrowTxnIndex and nowhere else, and every read of
\* identifier resolution asks for the transaction at that position.
C27_IndexIsEscrowCreation ==
    /\ \A k \in 1..Len(submitted) :
          EscrowCreations(submitted[k]) = {createEscrowTxnIndex}
    /\ \A k \in 1..Len(reads) :
          /\ submitted # <<>>
          /\ EscrowCreations(submitted[1]) = {reads[k].txId}

\* A confirmed bundle with the opt-in in front and two proposals behind
\* the escrow creation, which is at position 3, and a read made for it.
C27_Witness ==
    /\ Len(submitted) = 1
    /\ submitted[1][1].type = "axfer" /\ submitted[1][1].to = "TAKER"
    /\ Len(submitted[1]) = 8
    /\ createEscrowTxnIndex = 3
    /\ submitted[1][4].type = "createEscrow"
    /\ reads # <<>> /\ reads[1].txId = 3

\* The positions, counted from 1, of the proposals of a bundle, in order.
ProposalPlaces(bundle) ==
    SelectSeq([j \in 1..Len(bundle) |-> j], LAMBDA j : bundle[j].type = "proposeAMatch")

\* C28: in every bundle createOrder builds, the i-th proposal carries
\* takerAppCreatedIndexOffset = 2i, and the call that many positions in
\* front of the proposal is the escrow creation.
C28_OffsetReachesEscrowCreation ==
    \A bundle \in {atc} \cup {submitted[k] : k \in 1..Len(submitted)} :
        LET proposals == ProposalPlaces(bundle)
        IN  \A i \in 1..Len(proposals) :
                LET offset == bundle[proposals[i]].takerAppCreatedIndexOffset
                IN  /\ offset = 2 * i
                    /\ proposals[i] - offset >= 1
                    /\ bundle[proposals[i] - offset].type = "createEscrow"

\* A submitted bundle without opt-in and with two proposals: the escrow
\* creation at place 3, the proposals at places 5 and 7 with offsets 2, 4.
C28_Witness ==
    /\ Len(submitted) = 1
    /\ Len(submitted[1]) = 7
    /\ submitted[1][3].type = "createEscrow"
    /\ ProposalPlaces(submitted[1]) = <<5, 7>>
    /\ submitted[1][5].takerAppCreatedIndexOffset = 2
    /\ submitted[1][7].takerAppCreatedIndexOffset = 4

\* The sum of the quantityMatched of the proposals of a bundle.
RECURSIVE SumQuantityMatched(_)
SumQuantityMatched(bundle) ==
    IF bundle = <<>> THEN 0
    ELSE (IF IsProposal(bundle[1]) THEN bundle[1].quantityMatched ELSE 0)
         + SumQuantityMatched(Tail(bundle))

\* C29: the matchedQuantity createMarketOrder returns is the sum of the
\* quantityMatched of the proposals of the submitted bundle and is not
\* larger than the quantity of the order, for a computed and for a
\* supplied list of matches.
C29_MatchedQuantityIsProposed ==
    (result.status = "resolved" /\ result.matchedQuantity # None) =>
        /\ result.matchedQuantity[1] = SumQuantityMatched(submitted[1])
        /\ BigCmp(BigOfInt(result.matchedQuantity[1]), orderParams.quantity) <= 0

\* -------------------------------------------------------------------------
\* calculateFeeFromTotal after calculateFee
\* -------------------------------------------------------------------------

\* The call of calculateFee has a price in (0, 1,000,000] with
\* quantity * price a multiple of 1,000,000, and the call of
\* calculateFeeFromTotal is made with quantity * price / 1,000,000 + fee.
FundedBy(feeCall, totalCall) ==
    LET principal == BigDivMod(BigMul(feeCall.quantity, feeInput.price), BigOfInt(ONE))
    IN  /\ feeInput.price # <<>>
        /\ BigCmp(feeInput.price, BigOfInt(ONE)) <= 0
        /\ principal.r = <<>>
        /\ ~feeCall.fee.neg
        /\ totalCall.totalAmount = BigAdd(principal.q, feeCall.fee.mag)

\* C30: for a price in (0, 1,000,000], a quantity with quantity * price a
\* multiple of 1,000,000 and any fee base, calculateFeeFromTotal of
\* quantity * price / 1,000,000 + calculateFee(quantity, price, feeBase)
\* hands back calculateFee(quantity, price, feeBase).
C30_FeeFromTotalInvertsFunding ==
    \A feeCall \in feeCalls, totalCall \in totalCalls :
        FundedBy(feeCall, totalCall) =>
            totalCall.value = [kind |-> "finite", neg |-> FALSE, mag |-> feeCall.fee.mag]

\* At price 100,000 and fee base 7%, the quantity 33,950,611,110: the fee
\* 213,888,849.993 is rounded up to 213,888,850, the total is
\* 3,608,949,961, and the fee found in the total is 213,888,850.
C30_Witness ==
    /\ feeInput = [price |-> BigOfInt(100000), feeBase |-> BigOfInt(70000)]
    /\ feeCalls = {[quantity |-> <<339, 5061, 1110>>,
                    fee |-> [neg |-> FALSE, mag |-> <<2, 1388, 8850>>]]}
    /\ \E totalCall \in totalCalls :
          /\ totalCall.totalAmount = <<36, 894, 9961>>
          /\ totalCall.value.mag = <<2, 1388, 8850>>
          /\ \A feeCall \in feeCalls : FundedBy(feeCall, totalCall)

====
